---- MODULE Spec2Model ----
(***************************************************************************)
(* Model of @plust/search-sdk: webSearch and getTroubleshootingInfo         *)
(* (src/unnamed/part_005, lines 289-425), the debug sink                   *)
(* (src/src/utils/debug.ts), the HTTP transport makeRequest                *)
(* (src/unnamed/part_003) and the eight built-in provider adapters: their  *)
(* create functions, their unconfigured singletons and their search.       *)
(*                                                                         *)
(* A JavaScript string is modelled as a Text: the non-empty sequence of    *)
(* its paragraphs, i.e. of the pieces between consecutive "\n\n".  The     *)
(* one-paragraph Text <<s>> is the string s, and Cat is string             *)
(* concatenation.  A JavaScript object with optional properties is a       *)
(* record whose DOMAIN holds the properties that are present.              *)
(***************************************************************************)
EXTENDS Naturals, Sequences, FiniteSets, TLC

VARIABLES
    options,        \* the WebSearchOptions object the caller passed
    pc,             \* position of the webSearch call
    calls,          \* the p.search invocations made so far, in order
    search,         \* search[i]: state of the promise p.search returned for provider i
    searchPromises, \* searchPromises[i]: state of the wrapper promise of provider i
    log,            \* what the diagnostics logger received, in order
    outcome,        \* how the webSearch promise settled
    ts,             \* a getTroubleshootingInfo application: its arguments and result
    app             \* an application of debug.*, configure or an adapter's search

vars == <<options, pc, calls, search, searchPromises, log, outcome, ts, app>>

-----------------------------------------------------------------------------
(* Bounds *)

MaxProviders == 2
MaxResults == 2

-----------------------------------------------------------------------------
(* Strings as Texts *)

NL2 == <<"", "">>

Cat(a, b) ==
    SubSeq(a, 1, Len(a) - 1) \o <<a[Len(a)] \o b[1]>> \o SubSeq(b, 2, Len(b))

Str(s) == <<s>>

EmptyText == Str("")

RECURSIVE JoinText(_, _)
JoinText(texts, sep) ==
    IF Len(texts) = 0 THEN EmptyText
    ELSE IF Len(texts) = 1 THEN texts[1]
    ELSE Cat(Cat(texts[1], sep), JoinText(Tail(texts), sep))

RECURSIVE JoinNames(_)
JoinNames(names) ==
    IF Len(names) = 0 THEN ""
    ELSE IF Len(names) = 1 THEN names[1]
    ELSE names[1] \o ", " \o JoinNames(Tail(names))

-----------------------------------------------------------------------------
(* Objects *)

EmptyObject == [f \in {} |-> ""]

Has(o, f) == f \in DOMAIN o

\* A string property that is present and not empty.
Truthy(o, f) == Has(o, f) /\ o[f] # ""

Without(o, f) == [g \in DOMAIN o \ {f} |-> o[g]]

Null == [type |-> "null"]

Error(text) == [type |-> "Error", message |-> text]

HttpError(text, statusCode) ==
    [type |-> "HttpError", message |-> text, statusCode |-> statusCode]

IsError(e) == e.type \in {"Error", "HttpError"}

-----------------------------------------------------------------------------
(* getTroubleshootingInfo *)

ObjectObjectMessage == Str("Search failed: [object Object]")

IncludesObjectObject(message) == message = ObjectObjectMessage

AuthHint ==
    "This is likely an authentication issue. Check your API key and ensure it has the correct permissions."
BadRequestHint ==
    "This is likely due to invalid request parameters. Check your query and other search options."
RateLimitHint ==
    "You've exceeded the rate limit for this API. Try again later or reduce your request frequency."
ServerHint ==
    "The search provider is experiencing server issues. Try again later."
ComplexDataHint ==
    "The error response contains complex data that wasn't properly formatted. " \o
    "Try enabling debug mode to see the full response: { debug: { enabled: true, logResponses: true } }"
GoogleHint ==
    "Make sure your Google API key is valid and the Custom Search API is enabled. Also, check if your Search Engine ID (cx) is correct."
SerpApiHint ==
    "Check that your SerpAPI key is valid and that you have enough credits in your account."
BraveHint ==
    "Ensure your Brave Search API token is valid and your subscription is active."
SearxNGHint ==
    "Check if your SearXNG instance URL is correct and the server is running."
DuckDuckGoHint ==
    "DuckDuckGo scraping can be unreliable. This may be a temporary issue. Try again later."

NoStatus == 0

\* `statusCode > 500` instead of `statusCode >= 500`.
StatusHintAbove500(statusCode) ==
    IF statusCode # NoStatus
    THEN IF statusCode = 401 \/ statusCode = 403 THEN Str(AuthHint)
         ELSE IF statusCode = 400 THEN Str(BadRequestHint)
         ELSE IF statusCode = 429 THEN Str(RateLimitHint)
         ELSE IF statusCode > 500 THEN Str(ServerHint)
         ELSE EmptyText
    ELSE EmptyText

StatusHint(statusCode) ==
    IF statusCode # NoStatus
    THEN IF statusCode = 401 \/ statusCode = 403 THEN Str(AuthHint)
         ELSE IF statusCode = 400 THEN Str(BadRequestHint)
         ELSE IF statusCode = 429 THEN Str(RateLimitHint)
         ELSE IF statusCode >= 500 THEN Str(ServerHint)
         ELSE EmptyText
    ELSE EmptyText

ComplexDataSuffix(suggestions, error) ==
    IF IncludesObjectObject(error.message)
    THEN Cat(suggestions, Cat(NL2, Str(ComplexDataHint)))
    ELSE suggestions

\* The switch with `suggestions +=` instead of `suggestions =`.
ProviderHintAppended(providerName, suggestions) ==
    CASE providerName = "google" -> Cat(suggestions, Str(GoogleHint))
      [] providerName = "serpapi" -> Cat(suggestions, Str(SerpApiHint))
      [] providerName = "brave" -> Cat(suggestions, Str(BraveHint))
      [] providerName = "searxng" -> Cat(suggestions, Str(SearxNGHint))
      [] providerName = "duckduckgo" -> Cat(suggestions, Str(DuckDuckGoHint))
      [] OTHER -> suggestions

ProviderHint(providerName, suggestions) ==
    CASE providerName = "google" -> Str(GoogleHint)
      [] providerName = "serpapi" -> Str(SerpApiHint)
      [] providerName = "brave" -> Str(BraveHint)
      [] providerName = "searxng" -> Str(SearxNGHint)
      [] providerName = "duckduckgo" -> Str(DuckDuckGoHint)
      [] OTHER -> suggestions

getTroubleshootingInfo(providerName, error, statusCode) ==
    ProviderHint(providerName,
                 ComplexDataSuffix(StatusHint(statusCode), error))

-----------------------------------------------------------------------------
(* The diagnostics sink: debug.log, debug.logRequest, debug.logResponse *)

defaultDebugOptions ==
    [enabled |-> FALSE, logRequests |-> FALSE, logResponses |-> FALSE,
     logger |-> "console"]

\* { ...defaultDebugOptions, ...options }
MergedDebugOptions(debugOptions) == debugOptions @@ defaultDebugOptions

\* One logger call: the message and, when given, the data.
LogEntry(message, data) ==
    IF data = Null THEN [message |-> message]
    ELSE [message |-> message, data |-> data]

debugLog(debugOptions, lg, message, data) ==
    IF MergedDebugOptions(debugOptions).enabled
    THEN Append(lg, LogEntry(message, data))
    ELSE lg

\* opts.logger || defaultDebugOptions.logger; "undefined" is a logger property
\* given as undefined.
LoggerOf(debugOptions) ==
    IF MergedDebugOptions(debugOptions).logger = "undefined"
    THEN defaultDebugOptions.logger
    ELSE MergedDebugOptions(debugOptions).logger

\* logRequest testing `opts.enabled` alone.
debugLogRequestUnflagged(debugOptions, lg, message, data) ==
    IF MergedDebugOptions(debugOptions).enabled
    THEN Append(lg, LogEntry("REQUEST: " \o message, data))
    ELSE lg

debugLogRequest(debugOptions, lg, message, data) ==
    IF MergedDebugOptions(debugOptions).enabled
       /\ MergedDebugOptions(debugOptions).logRequests
    THEN Append(lg, LogEntry("REQUEST: " \o message, data))
    ELSE lg

debugLogResponse(debugOptions, lg, message, data) ==
    IF MergedDebugOptions(debugOptions).enabled
       /\ MergedDebugOptions(debugOptions).logResponses
    THEN Append(lg, LogEntry("RESPONSE: " \o message, data))
    ELSE lg

-----------------------------------------------------------------------------
(* The inputs of one webSearch call *)

ProviderNames == {"arxiv", "brave", "alpha"}

\* A provider handle.  "arxiv" and "brave" are the handles createArxivProvider
\* and createBraveProvider return; "alpha" is a handle the caller wrote.
Handle(name) == [name |-> name]

RECURSIVE SeqsUpTo(_, _)
SeqsUpTo(S, n) ==
    IF n = 0 THEN {<<>>}
    ELSE LET shorter == SeqsUpTo(S, n - 1)
         IN  shorter \cup {Append(q, x) : q \in shorter, x \in S}

ProviderLists == SeqsUpTo({Handle(n) : n \in ProviderNames}, MaxProviders)

DebugChoices ==
    {EmptyObject,
     [debug |-> [enabled |-> TRUE]],
     [debug |-> [enabled |-> TRUE, logResponses |-> TRUE]]}

OptionsSet ==
    {p @@ q @@ i @@ d :
        p \in {EmptyObject} \cup {[provider |-> l] : l \in ProviderLists},
        q \in {EmptyObject, [query |-> ""], [query |-> "q"]},
        i \in {EmptyObject, [idList |-> ""], [idList |-> "1706.03762"]},
        d \in DebugChoices}

\* const { provider, debug: debugOptions, ...searchOptions } = options
debugOptionsOf(o) == IF Has(o, "debug") THEN o.debug ELSE EmptyObject

searchOptionsOf(o) == Without(Without(o, "provider"), "debug")

\* { ...searchOptions, debug: debugOptions }
\* p.search(searchOptions): the debug configuration not forwarded.
RequestOfWithoutDebug(o) == searchOptionsOf(o)

RequestOf(o) ==
    IF Has(o, "debug") THEN searchOptionsOf(o) @@ [debug |-> o.debug]
    ELSE searchOptionsOf(o)

NumProviders(o) == IF Has(o, "provider") THEN Len(o.provider) ELSE 0

Indices == 1..NumProviders(options)

-----------------------------------------------------------------------------
(* What a provider's search can do *)

\* Every adapter stamping its records with the literal 'google'.
ResultStampedGoogle(name, n) ==
    [url |-> "https://example.org/" \o ToString(n),
     title |-> "t" \o ToString(n), provider |-> "google"]

Result(name, n) ==
    [url |-> "https://example.org/" \o ToString(n),
     title |-> "t" \o ToString(n), provider |-> name]

\* The result lists a provider can resolve to: none, or MaxResults records in
\* the provider's own (here descending) order.
ResultLists(name) ==
    {<<>>, [k \in 1..MaxResults |-> Result(name, MaxResults + 1 - k)]}

ForbiddenError ==
    HttpError(Str("Request failed with status: 403 Forbidden"), 403)

Rejections == {ForbiddenError, Error(ObjectObjectMessage),
               [type |-> "string", value |-> "boom"]}

BraveQueryError == Error(Str("Brave search requires a query."))

ArxivQueryError ==
    Error(Str("Arxiv search requires either a \"query\" or an \"idList\"."))

DuckDuckGoQueryError == Error(Str("DuckDuckGo search requires a query."))

\* The precondition a built-in adapter checks before any transport call; Null
\* when it is met.
PreconditionError(name, request) ==
    CASE name = "brave" /\ ~Truthy(request, "query") -> BraveQueryError
      [] name = "arxiv" /\ ~Truthy(request, "query")
                        /\ ~Truthy(request, "idList") -> ArxivQueryError
      [] name = "duckduckgo" /\ ~Truthy(request, "query") -> DuckDuckGoQueryError
      [] OTHER -> Null

\* An async function never throws synchronously; a handle the caller wrote can.
CanThrowSynchronously(name) == name = "alpha"

-----------------------------------------------------------------------------
(* webSearch: validation *)

\* !provider alone: an empty list passes.
ProviderUndefined(o) == ~Has(o, "provider")

\* !provider || provider.length === 0
ProviderMissing(o) == IF Has(o, "provider") THEN Len(o.provider) = 0 ELSE TRUE

hasArxivProvider(provider) ==
    \E i \in 1..Len(provider) : provider[i].name = "arxiv"

\* !options.query && !options.idList: any provider list relaxes the check.
QueryMissingAnyProvider(o) == ~Truthy(o, "query") /\ ~Truthy(o, "idList")

\* !options.query: an idList never relaxes the check.
QueryMissingStrict(o) == ~Truthy(o, "query")

\* !options.query && !(hasArxivProvider && options.idList)
QueryMissing(o) ==
    ~Truthy(o, "query") /\ ~(hasArxivProvider(o.provider) /\ Truthy(o, "idList"))

NoProviderError == Error(Str("At least one search provider is required."))

NoQueryError ==
    Error(Str("A search query or ID list (for Arxiv) is required."))

ProviderNameList(provider) == [i \in 1..Len(provider) |-> provider[i].name]

StartMessage(provider) ==
    "Performing search with " \o ToString(Len(provider)) \o " provider(s): "
        \o JoinNames(ProviderNameList(provider))

-----------------------------------------------------------------------------
(* webSearch: the wrapper around one provider's search *)

Idle == [state |-> "idle"]
Pending == [state |-> "pending"]
Fulfilled(v) == [state |-> "fulfilled", value |-> v]
Rejected(e) == [state |-> "rejected", reason |-> e]
Threw(e) == [state |-> "threw", reason |-> e]

\* error instanceof Error ? error.message : String(error)
ErrorMessageOf(error) ==
    IF IsError(error) THEN error.message ELSE Str(error.value)

\* error instanceof HttpError ? error.statusCode : undefined
StatusCodeOf(error) ==
    IF error.type = "HttpError" THEN error.statusCode ELSE NoStatus

TroubleshootingOf(p, error) ==
    getTroubleshootingInfo(
        p.name,
        IF IsError(error) THEN error ELSE Error(ErrorMessageOf(error)),
        StatusCodeOf(error))

DetailedErrorMessage(p, error) ==
    LET base == Cat(Str("Search with provider '" \o p.name \o "' failed: "),
                    ErrorMessageOf(error))
        troubleshooting == TroubleshootingOf(p, error)
    IN  IF troubleshooting # EmptyText
        THEN Cat(base, Cat(Cat(NL2, Str("Troubleshooting: ")), troubleshooting))
        ELSE base

\* The try branch: what the wrapper resolves to and logs.
OnFulfilled(p, results) ==
    [provider |-> p.name, results |-> results, error |-> Null]

\* debug.log instead of debug.logResponse in the try branch.
LogFulfilledAlways(p, results, lg) ==
    debugLog(debugOptionsOf(options), lg,
        "RESPONSE: Received " \o ToString(Len(results)) \o " results from " \o p.name,
        Null)

LogFulfilled(p, results, lg) ==
    debugLogResponse(debugOptionsOf(options), lg,
        "Received " \o ToString(Len(results)) \o " results from " \o p.name,
        Null)

\* The catch branch: what the wrapper resolves to and logs.
OnRejected(p, error) ==
    [provider |-> p.name, results |-> <<>>,
     error |-> Error(DetailedErrorMessage(p, error))]

LogRejected(p, error, lg) ==
    debugLog(debugOptionsOf(options), lg,
        "Search error with provider " \o p.name,
        [error |-> ErrorMessageOf(error), statusCode |-> StatusCodeOf(error),
         troubleshooting |-> TroubleshootingOf(p, error)])

\* What the wrapper promise becomes when the provider's search fails, were the
\* failure not caught.
SettleUncaught(p, error) == Rejected(error)

\* What the wrapper promise becomes when the provider's search fails: the catch
\* branch returns, so the wrapper is fulfilled with a failure entry.
SettleRejection(p, error) == Fulfilled(OnRejected(p, error))

\* What the wrapper promise becomes when the provider's search succeeds.
SettleSuccess(p, results) == Fulfilled(OnFulfilled(p, results))

\* What a caller's logger throws when it fails.
LoggerError == Error(Str("write EPIPE"))

\* A debug call that took the log from `before` to `after` threw: it reached
\* the logger, and the logger is one that throws from its throwsFrom-th call
\* on.  debug.ts has no try around `logger(...)`.
LoggerThrew(before, after) ==
    /\ after # before
    /\ Has(debugOptionsOf(options), "throwsFrom")
    /\ Len(after) >= debugOptionsOf(options).throwsFrom

\* The catch branch of the wrapper: debug.log, then the return of the failure
\* entry unless debug.log threw.
CatchBranch(p, error, lg) ==
    [log |-> LogRejected(p, error, lg),
     promise |-> IF LoggerThrew(lg, LogRejected(p, error, lg))
                 THEN Rejected(LoggerError)
                 ELSE SettleRejection(p, error)]

\* The try branch of the wrapper once p.search resolved: debug.logResponse,
\* then the return of the success entry; what debug.logResponse throws is
\* caught by the catch branch like a failure of the search.
TryBranch(p, results, lg) ==
    IF LoggerThrew(lg, LogFulfilled(p, results, lg))
    THEN CatchBranch(p, LoggerError, LogFulfilled(p, results, lg))
    ELSE [log |-> LogFulfilled(p, results, lg),
          promise |-> SettleSuccess(p, results)]

-----------------------------------------------------------------------------
(* webSearch: the barrier and the collection *)

\* Promise.all(searchPromises) is rejected as soon as a wrapper promise is.
PromiseAllRejected(promises) ==
    \E i \in DOMAIN promises : promises[i].state = "rejected"

PromiseAllReason(promises) ==
    promises[CHOOSE i \in DOMAIN promises :
                /\ promises[i].state = "rejected"
                /\ \A j \in DOMAIN promises :
                      promises[j].state = "rejected" => i <= j].reason

\* Promise.any / Promise.race instead of Promise.all.
PromiseAnyFulfilled(promises) ==
    \E i \in DOMAIN promises : promises[i].state = "fulfilled"

\* Promise.all(searchPromises) is fulfilled once every wrapper promise is.
PromiseAllFulfilled(promises) ==
    \A i \in DOMAIN promises : promises[i].state = "fulfilled"

\* A barrier that lets the call continue only once every provider succeeded.
AwaitResumesOnSuccess(promises) ==
    \A i \in DOMAIN promises :
        promises[i].state = "fulfilled" /\ promises[i].value.error = Null

\* `await Promise.all(searchPromises)` resumes: by throwing once the promise is
\* rejected, by continuing once it is fulfilled.
AwaitResumes(promises) ==
    IF PromiseAllRejected(promises) THEN TRUE ELSE PromiseAllFulfilled(promises)

\* `await` inside the loop over the providers: the engine yields between two
\* invocations.
YieldedInsideLoop == pc \in {"fanout", "await"}

\* The engine has reached `await Promise.all(...)`: the continuations of the
\* provider promises run only from here on.
Yielded == pc = "await"

RECURSIVE PromiseAllValue(_)
PromiseAllValue(promises) ==
    IF Len(promises) = 0 THEN <<>>
    ELSE (IF promises[1].state = "fulfilled" THEN <<promises[1].value>> ELSE <<>>)
         \o PromiseAllValue(Tail(promises))

\* A merge that drops a record already in the list.
RECURSIVE Deduplicated(_)
Deduplicated(records) ==
    IF Len(records) = 0 THEN <<>>
    ELSE LET front == Deduplicated(SubSeq(records, 1, Len(records) - 1))
             last == records[Len(records)]
         IN  IF \E k \in 1..Len(front) : front[k] = last THEN front
             ELSE Append(front, last)

RECURSIVE CollectResultsDeduplicated(_)
CollectResultsDeduplicated(searchResults) ==
    IF Len(searchResults) = 0 THEN <<>>
    ELSE Deduplicated(
            (IF searchResults[1].error # Null THEN <<>>
             ELSE searchResults[1].results)
            \o CollectResultsDeduplicated(Tail(searchResults)))

RECURSIVE CollectResults(_)
CollectResults(searchResults) ==
    IF Len(searchResults) = 0 THEN <<>>
    ELSE (IF searchResults[1].error # Null THEN <<>>
          ELSE searchResults[1].results)
         \o CollectResults(Tail(searchResults))

\* errors.unshift instead of errors.push.
RECURSIVE CollectErrorsReversed(_)
CollectErrorsReversed(searchResults) ==
    IF Len(searchResults) = 0 THEN <<>>
    ELSE CollectErrorsReversed(Tail(searchResults))
         \o (IF searchResults[1].error # Null
             THEN <<searchResults[1].error.message>> ELSE <<>>)

RECURSIVE CollectErrors(_)
CollectErrors(searchResults) ==
    IF Len(searchResults) = 0 THEN <<>>
    ELSE (IF searchResults[1].error # Null
          THEN <<searchResults[1].error.message>> ELSE <<>>)
         \o CollectErrors(Tail(searchResults))

CompleteMessage(searchResults, allResults, errors) ==
    "Search complete: " \o ToString(Len(allResults)) \o " total results from "
        \o ToString(Len(searchResults) - Len(errors)) \o "/"
        \o ToString(Len(searchResults)) \o " providers."

\* allResults.length === 0 && errors.length > 0
ShouldThrow(allResults, errors) == Len(allResults) = 0 /\ Len(errors) > 0

AllFailedError(provider, errors) ==
    Error(Cat(Str("All " \o ToString(Len(provider)) \o " provider(s) failed:"),
              Cat(NL2, JoinText(errors, NL2))))

Returned(v) == [kind |-> "returned", value |-> v]
Thrown(e) == [kind |-> "thrown", error |-> e]
NotSettled == [kind |-> "pending"]

-----------------------------------------------------------------------------
(* The HTTP transport: makeRequest *)

DEFAULT_TIMEOUT == 15000

\* const { timeout = DEFAULT_TIMEOUT } = options
TimeoutOf(request) ==
    IF Has(request, "timeout") THEN request.timeout ELSE DEFAULT_TIMEOUT

\* What fetch rejects with when the controller aborts, and when the network fails.
AbortError ==
    [type |-> "Error", name |-> "AbortError",
     message |-> Str("This operation was aborted")]

NetworkError == Error(Str("fetch failed"))

\* What response.json() rejects with when the body is not JSON.
JsonSyntaxError == Error(Str("Unexpected token '<' is not valid JSON"))

\* The catch clause rethrowing whatever it caught.
ConvertFetchErrorRethrown(error, timeout) == error

\* The catch clause: an AbortError becomes the timeout error, anything else is
\* rethrown.
ConvertFetchError(error, timeout) ==
    IF Has(error, "name")
    THEN IF error.name = "AbortError"
         THEN Error(Str("Request timed out after " \o ToString(timeout) \o "ms"))
         ELSE error
    ELSE error

\* The bodies of a non-2xx response.
ErrorBodies ==
    {[kind |-> "unreadable"],
     [kind |-> "json", value |-> [error |-> [message |-> "API key not valid"]]],
     [kind |-> "json", value |-> [message |-> "Too many requests"]],
     [kind |-> "text", text |-> "Forbidden by policy"]}

\* The detail makeRequest extracts from what parseResponseBody resolved to; ""
\* when it resolved to null.
ErrorDetail(body) ==
    CASE body.kind = "json" /\ Has(body.value, "error") -> body.value.error.message
      [] body.kind = "json" /\ Has(body.value, "message") -> body.value.message
      [] body.kind = "text" -> body.text
      [] OTHER -> ""

\* The failure to read the body thrown in place of the HttpError.
RequestFailedOrReadError(response, detail) ==
    IF detail = "" THEN Error(Str("Body is unusable: Body has already been read"))
    ELSE HttpError(Str("Request failed with status: " \o ToString(response.status)
                         \o " " \o response.statusText \o " - " \o detail),
                   response.status)

\* The HttpError of a non-2xx response whose body yielded this detail.
RequestFailed(response, detail) ==
    HttpError(Str("Request failed with status: " \o ToString(response.status)
                    \o " " \o response.statusText
                    \o (IF detail # "" THEN " - " \o detail ELSE "")),
              response.status)

\* `return response.json()`: what the promise of makeRequest settles to for a
\* 2xx response.
ResponseJson(response) ==
    IF response.body.kind = "json" THEN Fulfilled(response.body.value)
    ELSE Rejected(JsonSyntaxError)

-----------------------------------------------------------------------------
(* The built-in provider adapters *)

AdapterNames ==
    {"google", "serpapi", "brave", "exa", "tavily", "searxng", "arxiv", "duckduckgo"}

\* The exported singleton of a provider, before configure() was called.
Singleton(name) == [name |-> name, unconfigured |-> TRUE]

ProductName ==
    [google |-> "Google", serpapi |-> "SerpAPI", brave |-> "Brave Search",
     exa |-> "Exa", tavily |-> "Tavily", searxng |-> "SearxNG", arxiv |-> "Arxiv",
     duckduckgo |-> "DuckDuckGo"]

NotConfiguredError(name) ==
    Error(Str(ProductName[name] \o " provider must be configured before use. Call "
                \o name \o ".configure() first."))

\* What search throws before any transport call; Null when it goes on.
SearchPrecondition(p, request) ==
    IF Has(p, "unconfigured") THEN NotConfiguredError(p.name)
    ELSE PreconditionError(p.name, request)

\* The property of the response body an adapter reads its results from.
ExpectedField ==
    [google |-> "items", serpapi |-> "organic_results", brave |-> "web",
     exa |-> "results", tavily |-> "results", searxng |-> "results",
     arxiv |-> "feed", duckduckgo |-> "results"]

FailurePrefix ==
    [google |-> "Google search failed", serpapi |-> "SerpAPI search failed",
     brave |-> "Brave search failed", exa |-> "Exa search failed",
     tavily |-> "Tavily search failed", searxng |-> "SearxNG search failed",
     arxiv |-> "Arxiv search failed", duckduckgo |-> "DuckDuckGo search failed"]

\* The catch clause of an adapter's search: always a new plain Error.
AdapterFailure(name, error) ==
    IF error.type = "HttpError"
    THEN CASE name = "arxiv" ->
                Error(Cat(Str("Arxiv API error: " \o ToString(error.statusCode)
                                \o " - "), error.message))
           [] name = "duckduckgo" ->
                Error(Cat(Str("DuckDuckGo API error: "), error.message))
           [] OTHER -> Error(Cat(Str(FailurePrefix[name] \o ": "), error.message))
    ELSE IF IsError(error)
    THEN Error(Cat(Str(FailurePrefix[name] \o ": "), error.message))
    ELSE Error(Str(FailurePrefix[name]))

\* The records an adapter builds from n items of the response.
Records(name, n) == [k \in 1..n |-> Result(name, k)]

\* A try block that does not look at the error field of the response.
ParsedOutcomesErrorIgnored(name, value) ==
    CASE name = "arxiv" ->
            {Rejected(AdapterFailure(name, Error(Str("Non-whitespace before first tag.")))),
             Fulfilled(<<>>)}
      [] name = "duckduckgo" -> {Fulfilled(<<>>)}
      [] OTHER ->
            IF Has(value, ExpectedField[name])
            THEN {Fulfilled(Records(name, value[ExpectedField[name]]))}
            ELSE {Fulfilled(<<>>)}

\* The try block of an adapter's search once get/post resolved to `value`.
\* parseStringPromise is not part of the repository: applied to a value that is
\* not a string it either rejects or resolves to something with no feed.
ParsedOutcomes(name, value) ==
    CASE name = "arxiv" ->
            {Rejected(AdapterFailure(name, Error(Str("Non-whitespace before first tag.")))),
             Fulfilled(<<>>)}
      [] name = "duckduckgo" -> {Fulfilled(<<>>)}
      [] name = "serpapi" /\ Truthy(value, "error") ->
            {Rejected(AdapterFailure(name, Error(Str(value.error))))}
      [] OTHER ->
            IF Has(value, ExpectedField[name])
            THEN {Fulfilled(Records(name, value[ExpectedField[name]]))}
            ELSE {Fulfilled(<<>>)}

\* A catch clause that returns [] instead of throwing.
AdapterOutcomesSwallowed(name, t) ==
    IF t.state = "rejected" THEN {Fulfilled(<<>>)}
    ELSE ParsedOutcomes(name, t.value)

\* What an adapter's search can settle to once the transport promise `t` has
\* settled.
AdapterOutcomes(name, t) ==
    IF t.state = "rejected" THEN {Rejected(AdapterFailure(name, t.reason))}
    ELSE ParsedOutcomes(name, t.value)

-----------------------------------------------------------------------------
(* The state machine of one webSearch call *)

NoApplication == [phase |-> "none"]

Init ==
    /\ options \in OptionsSet
    /\ pc = "start"
    /\ calls = <<>>
    /\ search = [i \in 1..NumProviders(options) |-> Idle]
    /\ searchPromises = [i \in 1..NumProviders(options) |-> Idle]
    /\ log = <<>>
    /\ outcome = NotSettled
    /\ ts = NoApplication
    /\ app = NoApplication

\* Lines 372-383: the two precondition checks and the start event.
RejectNoProvider ==
    /\ pc = "start"
    /\ ProviderMissing(options)
    /\ pc' = "done"
    /\ outcome' = Thrown(NoProviderError)
    /\ UNCHANGED <<options, calls, search, searchPromises, log, ts, app>>

RejectNoQuery ==
    /\ pc = "start"
    /\ ~ProviderMissing(options)
    /\ QueryMissing(options)
    /\ pc' = "done"
    /\ outcome' = Thrown(NoQueryError)
    /\ UNCHANGED <<options, calls, search, searchPromises, log, ts, app>>

Validate ==
    /\ pc = "start"
    /\ ~ProviderMissing(options)
    /\ ~QueryMissing(options)
    /\ log' = debugLog(debugOptionsOf(options), log,
                       StartMessage(options.provider), Null)
    /\ IF LoggerThrew(log, log')
       THEN pc' = "done" /\ outcome' = Thrown(LoggerError)
       ELSE pc' = "fanout" /\ outcome' = outcome
    /\ UNCHANGED <<options, calls, search, searchPromises, ts, app>>

Call(i) ==
    [index |-> i, name |-> options.provider[i].name, request |-> RequestOf(options)]

AfterInvoke(i) == IF i = NumProviders(options) THEN "await" ELSE "fanout"

\* provider.map: the next provider's search is called and returns a promise.
Invoke(i) ==
    /\ pc = "fanout"
    /\ i = Len(calls) + 1
    /\ calls' = Append(calls, Call(i))
    /\ search' = [search EXCEPT ![i] = Pending]
    /\ searchPromises' = [searchPromises EXCEPT ![i] = Pending]
    /\ pc' = AfterInvoke(i)
    /\ UNCHANGED <<options, log, outcome, ts, app>>

\* provider.map: the next provider's search throws before returning a promise;
\* the catch branch runs at once.
InvokeThrows(i, e) ==
    /\ pc = "fanout"
    /\ i = Len(calls) + 1
    /\ CanThrowSynchronously(options.provider[i].name)
    /\ calls' = Append(calls, Call(i))
    /\ search' = [search EXCEPT ![i] = Threw(e)]
    /\ searchPromises' =
         [searchPromises EXCEPT
            ![i] = CatchBranch(options.provider[i], e, log).promise]
    /\ log' = CatchBranch(options.provider[i], e, log).log
    /\ pc' = AfterInvoke(i)
    /\ UNCHANGED <<options, outcome, ts, app>>

\* The promise of provider i is fulfilled with a result list.
Resolve(i, results) ==
    /\ Yielded
    /\ search[i] = Pending
    /\ SearchPrecondition(options.provider[i], RequestOf(options)) = Null
    /\ search' = [search EXCEPT ![i] = Fulfilled(results)]
    /\ searchPromises' =
         [searchPromises EXCEPT
            ![i] = TryBranch(options.provider[i], results, log).promise]
    /\ log' = TryBranch(options.provider[i], results, log).log
    /\ UNCHANGED <<options, pc, calls, outcome, ts, app>>

RejectionsOf(i) ==
    LET pre == SearchPrecondition(options.provider[i], RequestOf(options))
    IN  IF pre # Null THEN {pre} ELSE Rejections

\* The promise of provider i is rejected.
Reject(i, e) ==
    /\ Yielded
    /\ search[i] = Pending
    /\ search' = [search EXCEPT ![i] = Rejected(e)]
    /\ searchPromises' =
         [searchPromises EXCEPT
            ![i] = CatchBranch(options.provider[i], e, log).promise]
    /\ log' = CatchBranch(options.provider[i], e, log).log
    /\ UNCHANGED <<options, pc, calls, outcome, ts, app>>

\* Lines 405-424: the continuation after `await Promise.all(searchPromises)`.
Collect ==
    /\ pc = "await"
    /\ AwaitResumes(searchPromises)
    /\ IF PromiseAllRejected(searchPromises)
       THEN /\ outcome' = Thrown(PromiseAllReason(searchPromises))
            /\ log' = log
       ELSE LET searchResults == PromiseAllValue(searchPromises)
                allResults == CollectResults(searchResults)
                errors == CollectErrors(searchResults)
            IN  /\ log' = debugLog(debugOptionsOf(options), log,
                            CompleteMessage(searchResults, allResults, errors),
                            Null)
                /\ outcome' = IF LoggerThrew(log, log')
                              THEN Thrown(LoggerError)
                              ELSE IF ShouldThrow(allResults, errors)
                              THEN Thrown(AllFailedError(options.provider, errors))
                              ELSE Returned(allResults)
    /\ pc' = "done"
    /\ UNCHANGED <<options, calls, search, searchPromises, ts, app>>

Next ==
    \/ RejectNoProvider
    \/ RejectNoQuery
    \/ Validate
    \/ \E i \in Indices : Invoke(i)
    \/ \E i \in Indices : \E e \in Rejections : InvokeThrows(i, e)
    \/ \E i \in Indices : \E r \in ResultLists(options.provider[i].name) :
          Resolve(i, r)
    \/ \E i \in Indices : \E e \in RejectionsOf(i) : Reject(i, e)
    \/ Collect

Spec == Init /\ [][Next]_vars

\* A provider promise that is pending settles: what the caller of webSearch
\* assumes of the providers.
Settles ==
    \/ \E i \in Indices : \E r \in ResultLists(options.provider[i].name) :
          Resolve(i, r)
    \/ \E i \in Indices : \E e \in RejectionsOf(i) : Reject(i, e)

\* A step of the function itself: its synchronous code runs to the next await,
\* and the continuation of a settled promise is run by the job queue.
Runs ==
    \/ RejectNoProvider
    \/ RejectNoQuery
    \/ Validate
    \/ \E i \in Indices : Invoke(i) \/ \E e \in Rejections : InvokeThrows(i, e)
    \/ Collect

MaxQuietCalls == 3

\* Calls whose diagnostics go to a logger of the caller's that throws from
\* some call on.
ThrowInit ==
    /\ options \in
         {[provider |-> l] @@ q @@ [debug |-> d @@ [enabled |-> TRUE, throwsFrom |-> n]] :
            l \in ProviderLists, q \in {EmptyObject, [query |-> "q"]},
            d \in {EmptyObject, [logResponses |-> TRUE]},
            n \in 1..(MaxQuietCalls + 1)}
    /\ pc = "start"
    /\ calls = <<>>
    /\ search = [i \in 1..NumProviders(options) |-> Idle]
    /\ searchPromises = [i \in 1..NumProviders(options) |-> Idle]
    /\ log = <<>>
    /\ outcome = NotSettled
    /\ ts = NoApplication
    /\ app = NoApplication

ThrowSpec == ThrowInit /\ [][Next]_vars

\* Calls with diagnostics off: any provider list, with or without a query.
LiveInit ==
    /\ options \in
         {[provider |-> l] @@ q :
            l \in ProviderLists, q \in {EmptyObject, [query |-> "q"]}}
    /\ pc = "start"
    /\ calls = <<>>
    /\ search = [i \in 1..NumProviders(options) |-> Idle]
    /\ searchPromises = [i \in 1..NumProviders(options) |-> Idle]
    /\ log = <<>>
    /\ outcome = NotSettled
    /\ ts = NoApplication
    /\ app = NoApplication

\* webSearch with providers whose promises settle.
LiveSpec == LiveInit /\ [][Next]_vars /\ WF_vars(Settles) /\ WF_vars(Runs)

-----------------------------------------------------------------------------
(* webSearch called with provider singletons that were never configured *)

SingletonInit ==
    /\ options \in
         {[provider |-> l] @@ q :
            l \in SeqsUpTo({Singleton(n) : n \in AdapterNames} \cup {Handle("alpha")},
                           MaxProviders),
            q \in {EmptyObject, [query |-> "q"]}}
    /\ pc = "start"
    /\ calls = <<>>
    /\ search = [i \in 1..NumProviders(options) |-> Idle]
    /\ searchPromises = [i \in 1..NumProviders(options) |-> Idle]
    /\ log = <<>>
    /\ outcome = NotSettled
    /\ ts = NoApplication
    /\ app = NoApplication

SingletonSpec == SingletonInit /\ [][Next]_vars

-----------------------------------------------------------------------------
(* webSearch called with every search field a caller can set *)

ForwardInit ==
    /\ options \in
         {[provider |-> l] @@ q @@ i @@ f @@ d :
            l \in ProviderLists,
            q \in {EmptyObject, [query |-> "q"]},
            i \in {EmptyObject, [idList |-> "1706.03762"]},
            f \in {EmptyObject,
                   [maxResults |-> 5, page |-> 2, start |-> 10, language |-> "en",
                    region |-> "us", safeSearch |-> "strict",
                    sortBy |-> "relevance", sortOrder |-> "descending",
                    timeout |-> 5000]},
            d \in {EmptyObject,
                   [debug |-> [enabled |-> TRUE, logRequests |-> TRUE,
                               logger |-> "custom"]]}}
    /\ pc = "start"
    /\ calls = <<>>
    /\ search = [i \in 1..NumProviders(options) |-> Idle]
    /\ searchPromises = [i \in 1..NumProviders(options) |-> Idle]
    /\ log = <<>>
    /\ outcome = NotSettled
    /\ ts = NoApplication
    /\ app = NoApplication

ForwardSpec == ForwardInit /\ [][Next]_vars

-----------------------------------------------------------------------------
(* Two webSearch calls in flight at once, over the same provider handles *)

\* The handles both calls draw their provider lists from.
SharedHandles(n) ==
    [i \in 1..n |-> Handle(<<"brave", "alpha", "arxiv">>[((i - 1) % 3) + 1])]

\* What the invocations of one call will settle to: per provider a result list
\* or a rejection.
Fates(provider) ==
    LET Choices(i) == {Fulfilled(r) : r \in ResultLists(provider[i].name)}
                        \cup {Rejected(ForbiddenError)}
    IN  {f \in [1..Len(provider) -> UNION {Choices(i) : i \in 1..Len(provider)}] :
            \A i \in 1..Len(provider) : f[i] \in Choices(i)}

\* The locals of one call: nothing of it lives outside the call's closure.
NewCall(provider, fate) ==
    [options |-> [provider |-> provider, query |-> "q"], pc |-> "start",
     invoked |-> 0, search |-> [i \in 1..Len(provider) |-> Idle],
     searchPromises |-> [i \in 1..Len(provider) |-> Idle], settled |-> <<>>,
     fate |-> fate, outcome |-> NotSettled]

TwoCallsInit ==
    /\ options = EmptyObject
    /\ pc = "none"
    /\ calls = <<>>
    /\ search = <<>>
    /\ searchPromises = <<>>
    /\ log = <<>>
    /\ outcome = NotSettled
    /\ ts = NoApplication
    /\ app \in {[phase |-> "two calls", call |-> <<NewCall(p1, f1), NewCall(p2, f2)>>] :
                  p1 \in {SharedHandles(n) : n \in 1..MaxProviders},
                  p2 \in {SharedHandles(n) : n \in 1..MaxProviders},
                  f1 \in UNION {Fates(SharedHandles(n)) : n \in 1..MaxProviders},
                  f2 \in UNION {Fates(SharedHandles(n)) : n \in 1..MaxProviders}}
    /\ \A c \in 1..2 : Len(app.call[c].fate) = Len(app.call[c].options.provider)

\* The wrapper promises a call's `await Promise.all(searchPromises)` waits for,
\* were the array of both calls one module-level array.
AwaitedByAnyCall(c) == app.call[1].searchPromises \o app.call[2].searchPromises

\* The wrapper promises a call's `await Promise.all(searchPromises)` waits
\* for: those its own provider.map built.
AwaitedBy(c) == app.call[c].searchPromises

\* The values a call's wrappers were fulfilled with, in the order in which
\* they settled.
SearchResultsInSettlingOrder(c) ==
    [k \in 1..Len(app.call[c].settled) |->
        app.call[c].searchPromises[app.call[c].settled[k]].value]

\* The array Promise.all resolves to: the values in the order of the promises.
SearchResultsOf(c) == PromiseAllValue(AwaitedBy(c))

\* Lines 372-383 for a call whose options pass both checks.
CallValidate(c) ==
    /\ app.call[c].pc = "start"
    /\ ~ProviderMissing(app.call[c].options)
    /\ ~QueryMissing(app.call[c].options)
    /\ app' = [app EXCEPT !.call[c].pc = "fanout"]
    /\ UNCHANGED <<options, pc, calls, search, searchPromises, log, outcome, ts>>

\* provider.map: the call invokes its next provider.
CallInvoke(c) ==
    /\ app.call[c].pc = "fanout"
    /\ LET i == app.call[c].invoked + 1
       IN  app' = [app EXCEPT
                     !.call[c].invoked = i,
                     !.call[c].search[i] = Pending,
                     !.call[c].searchPromises[i] = Pending,
                     !.call[c].pc =
                        IF i = Len(app.call[c].options.provider)
                        THEN "await" ELSE "fanout"]
    /\ UNCHANGED <<options, pc, calls, search, searchPromises, log, outcome, ts>>

\* The promise of the call's provider i settles as its fate has it, and the
\* wrapper runs its try or its catch branch.
CallSettle(c, i) ==
    /\ app.call[c].pc = "await"
    /\ app.call[c].search[i] = Pending
    /\ LET p == app.call[c].options.provider[i]
           fate == app.call[c].fate[i]
       IN  app' = [app EXCEPT
                     !.call[c].search[i] = fate,
                     !.call[c].settled = Append(@, i),
                     !.call[c].searchPromises[i] =
                        IF fate.state = "fulfilled"
                        THEN SettleSuccess(p, fate.value)
                        ELSE SettleRejection(p, fate.reason)]
    /\ UNCHANGED <<options, pc, calls, search, searchPromises, log, outcome, ts>>

\* Lines 405-424 for one call.
CallCollect(c) ==
    /\ app.call[c].pc = "await"
    /\ PromiseAllFulfilled(AwaitedBy(c))
    /\ LET searchResults == SearchResultsOf(c)
           allResults == CollectResults(searchResults)
           errors == CollectErrors(searchResults)
       IN  app' = [app EXCEPT
                     !.call[c].pc = "done",
                     !.call[c].outcome =
                        IF ShouldThrow(allResults, errors)
                        THEN Thrown(AllFailedError(app.call[c].options.provider,
                                                   errors))
                        ELSE Returned(allResults)]
    /\ UNCHANGED <<options, pc, calls, search, searchPromises, log, outcome, ts>>

TwoCallsNext ==
    \E c \in 1..2 :
        \/ CallValidate(c)
        \/ CallInvoke(c)
        \/ \E i \in 1..Len(app.call[c].options.provider) : CallSettle(c, i)
        \/ CallCollect(c)

TwoCallsSpec == TwoCallsInit /\ [][TwoCallsNext]_vars

-----------------------------------------------------------------------------
(* getTroubleshootingInfo applied to arguments drawn from bounded sets *)

HintProviders ==
    {"google", "serpapi", "brave", "searxng", "duckduckgo", "exa", "tavily", "arxiv"}

HintStatusCodes == {NoStatus, 200, 400, 401, 403, 404, 429, 499, 500, 503}

HintErrors == {Error(Str("Request failed")), Error(ObjectObjectMessage)}

HintInit ==
    /\ options = EmptyObject
    /\ pc = "none"
    /\ calls = <<>>
    /\ search = <<>>
    /\ searchPromises = <<>>
    /\ log = <<>>
    /\ outcome = NotSettled
    /\ app = NoApplication
    /\ ts \in {[phase |-> "arguments", providerName |-> n, error |-> e,
                statusCode |-> c] :
                 n \in HintProviders, e \in HintErrors, c \in HintStatusCodes}

ApplyTroubleshooting ==
    /\ ts.phase = "arguments"
    /\ ts' = [phase |-> "result", providerName |-> ts.providerName,
              error |-> ts.error, statusCode |-> ts.statusCode,
              result |-> getTroubleshootingInfo(ts.providerName, ts.error,
                                                ts.statusCode)]
    /\ UNCHANGED <<options, pc, calls, search, searchPromises, log, outcome, app>>

\* The error a provider's search rejects with when it fails with ts.error's
\* message and ts.statusCode: an HttpError when the status is known.
HintFailure ==
    IF ts.statusCode # NoStatus THEN HttpError(ts.error.message, ts.statusCode)
    ELSE ts.error

\* Lines 391-398 of webSearch's catch branch: the failure message of the provider.
FormatFailure ==
    /\ ts.phase = "result"
    /\ ts' = [phase |-> "message", providerName |-> ts.providerName,
              error |-> ts.error, statusCode |-> ts.statusCode,
              result |-> ts.result,
              message |-> DetailedErrorMessage(Handle(ts.providerName),
                                               HintFailure)]
    /\ UNCHANGED <<options, pc, calls, search, searchPromises, log, outcome, app>>

HintNext == ApplyTroubleshooting \/ FormatFailure

HintSpec == HintInit /\ [][HintNext]_vars

-----------------------------------------------------------------------------
(* One search of a built-in adapter, down to the transport *)

StatusTexts ==
    [s \in {400, 403, 429, 500} |->
        CASE s = 400 -> "Bad Request" [] s = 403 -> "Forbidden"
          [] s = 429 -> "Too Many Requests" [] OTHER -> "Internal Server Error"]

\* The bodies a server can send with a 2xx status: a JSON object holding the
\* adapter's result field (with so many items), one without it, one with an
\* error field beside the result field, an Atom document and an HTML page.
OkBodies(name) ==
    {[kind |-> "json", value |-> [f \in {ExpectedField[name]} |-> n]] :
        n \in {0, MaxResults}}
    \cup {[kind |-> "json", value |-> EmptyObject],
          [kind |-> "json",
           value |-> [error |-> "Invalid API key."]
                        @@ [f \in {ExpectedField[name]} |-> MaxResults]],
          [kind |-> "text", text |-> "<feed xmlns=\"http://www.w3.org/2005/Atom\">"],
          [kind |-> "text", text |-> "<html>"]}

OkResponse(body) ==
    [ok |-> TRUE, status |-> 200, statusText |-> "OK", body |-> body]

ErrorResponse(status, body) ==
    [ok |-> FALSE, status |-> status, statusText |-> StatusTexts[status],
     body |-> body]

AdapterRequests ==
    {q @@ i @@ t :
        q \in {EmptyObject, [query |-> "q"]},
        i \in {EmptyObject, [idList |-> "1706.03762"]},
        t \in {EmptyObject, [timeout |-> 5000]}}

AdapterInit ==
    /\ options = EmptyObject
    /\ pc = "none"
    /\ calls = <<>>
    /\ search = <<>>
    /\ searchPromises = <<>>
    /\ log = <<>>
    /\ outcome = NotSettled
    /\ ts = NoApplication
    /\ app \in {[phase |-> "search", provider |-> p, request |-> r,
                 timer |-> "unset", cleared |-> FALSE, fetches |-> 0,
                 bodyReads |-> 0, response |-> Null, transport |-> Idle, result |-> Pending] :
                  p \in {Handle(n) : n \in AdapterNames}
                        \cup {Singleton(n) : n \in AdapterNames},
                  r \in AdapterRequests}

\* search throws before the try block: the promise it returned is rejected and
\* the transport was never called.
SearchRejectsEarly ==
    /\ app.phase = "search"
    /\ SearchPrecondition(app.provider, app.request) # Null
    /\ app' = [app EXCEPT !.phase = "settled",
                          !.result = Rejected(SearchPrecondition(app.provider,
                                                                 app.request))]
    /\ UNCHANGED <<options, pc, calls, search, searchPromises, log, outcome, ts>>

\* search calls get/post: makeRequest arms the timer and awaits fetch.
SendRequest ==
    /\ app.phase = "search"
    /\ SearchPrecondition(app.provider, app.request) = Null
    /\ app' = [app EXCEPT !.phase = "fetching", !.timer = "armed",
                          !.fetches = @ + 1, !.transport = Pending]
    /\ UNCHANGED <<options, pc, calls, search, searchPromises, log, outcome, ts>>

\* fetch resolves with a 2xx response: `return response.json()` reads the body,
\* and the finally clause clears the timer.
OkResponseArrives ==
    /\ app.phase = "fetching"
    /\ \E b \in OkBodies(app.provider.name) :
          app' = [app EXCEPT !.phase = "transport settled",
                             !.response = OkResponse(b), !.cleared = TRUE,
                             !.bodyReads = @ + 1,
                             !.transport = ResponseJson(OkResponse(b))]
    /\ UNCHANGED <<options, pc, calls, search, searchPromises, log, outcome, ts>>

\* fetch resolves with any other response: makeRequest awaits
\* parseResponseBody, which starts reading the text of a clone of the response.
ErrorResponseArrives ==
    /\ app.phase = "fetching"
    /\ \E s \in DOMAIN StatusTexts : \E b \in ErrorBodies :
          app' = [app EXCEPT !.phase = "reading error body",
                             !.bodyReads = @ + 1,
                             !.response = ErrorResponse(s, b)]
    /\ UNCHANGED <<options, pc, calls, search, searchPromises, log, outcome, ts>>

\* parseResponseBody resolves: makeRequest throws the HttpError, the finally
\* clause clears the timer.
ErrorBodyRead ==
    /\ app.phase = "reading error body"
    /\ app' = [app EXCEPT !.phase = "transport settled", !.cleared = TRUE,
                          !.transport =
                              Rejected(ConvertFetchError(
                                  RequestFailed(app.response,
                                                ErrorDetail(app.response.body)),
                                  TimeoutOf(app.request)))]
    /\ UNCHANGED <<options, pc, calls, search, searchPromises, log, outcome, ts>>

\* fetch rejects for a network failure.
NetworkFails ==
    /\ app.phase = "fetching"
    /\ app' = [app EXCEPT !.phase = "transport settled", !.cleared = TRUE,
                          !.transport =
                              Rejected(ConvertFetchError(NetworkError,
                                                         TimeoutOf(app.request)))]
    /\ UNCHANGED <<options, pc, calls, search, searchPromises, log, outcome, ts>>

\* The timer fires and the controller aborts.  While fetch is pending it
\* rejects with an AbortError; while the error body is being read the read
\* fails, parseResponseBody resolves to null and the HttpError is thrown bare.
TimerFires ==
    /\ app.phase \in {"fetching", "reading error body"}
    /\ app.timer = "armed"
    /\ ~app.cleared
    /\ app' = [app EXCEPT
                 !.phase = "transport settled", !.timer = "fired",
                 !.cleared = TRUE,
                 !.transport =
                     Rejected(ConvertFetchError(
                         IF app.phase = "fetching" THEN AbortError
                         ELSE RequestFailed(app.response, ""),
                         TimeoutOf(app.request)))]
    /\ UNCHANGED <<options, pc, calls, search, searchPromises, log, outcome, ts>>

\* The await of get/post resumes in search: its try block finishes or its
\* catch clause runs.
AdapterSettles ==
    /\ app.phase = "transport settled"
    /\ \E r \in AdapterOutcomes(app.provider.name, app.transport) :
          app' = [app EXCEPT !.phase = "settled", !.result = r]
    /\ UNCHANGED <<options, pc, calls, search, searchPromises, log, outcome, ts>>

AdapterNext ==
    \/ SearchRejectsEarly
    \/ SendRequest
    \/ OkResponseArrives
    \/ ErrorResponseArrives
    \/ ErrorBodyRead
    \/ NetworkFails
    \/ TimerFires
    \/ AdapterSettles

AdapterSpec == AdapterInit /\ [][AdapterNext]_vars

-----------------------------------------------------------------------------
(* debug.log, debug.logRequest and debug.logResponse applied to options drawn
   from bounded sets *)

DebugOptionsSet ==
    {e @@ q @@ r @@ l :
        e \in {EmptyObject, [enabled |-> FALSE], [enabled |-> TRUE]},
        q \in {EmptyObject, [logRequests |-> TRUE]},
        r \in {EmptyObject, [logResponses |-> TRUE]},
        l \in {EmptyObject, [logger |-> "custom"], [logger |-> "undefined"]}}

DebugInit ==
    /\ options = EmptyObject
    /\ pc = "none"
    /\ calls = <<>>
    /\ search = <<>>
    /\ searchPromises = <<>>
    /\ log = <<>>
    /\ outcome = NotSettled
    /\ ts = NoApplication
    /\ app \in {[phase |-> "debug call", fn |-> f, options |-> o,
                 message |-> "Search request", data |-> d,
                 console |-> <<>>, custom |-> <<>>] :
                  f \in {"log", "logRequest", "logResponse"},
                  o \in DebugOptionsSet,
                  d \in {Null, [url |-> "https://example.org/"]}}

\* One call of a function of `debug`: the entries go to the logger it chose.
ApplyDebug ==
    /\ app.phase = "debug call"
    /\ LET entries ==
             CASE app.fn = "log" ->
                    debugLog(app.options, <<>>, app.message, app.data)
               [] app.fn = "logRequest" ->
                    debugLogRequest(app.options, <<>>, app.message, app.data)
               [] OTHER ->
                    debugLogResponse(app.options, <<>>, app.message, app.data)
       IN  app' = IF LoggerOf(app.options) = "console"
                  THEN [app EXCEPT !.phase = "debug done", !.console = entries]
                  ELSE [app EXCEPT !.phase = "debug done", !.custom = entries]
    /\ UNCHANGED <<options, pc, calls, search, searchPromises, log, outcome, ts>>

DebugSpec == DebugInit /\ [][ApplyDebug]_vars

-----------------------------------------------------------------------------
(* configure / create*Provider applied to configurations drawn from bounded
   sets *)

\* The check of createGoogleProvider without its test of cx.
MissingCredentialKeyOnly(name, config) ==
    CASE name = "google" /\ ~Truthy(config, "apiKey") ->
            Error(Str("Google Custom Search requires an API key."))
      [] name = "serpapi" /\ ~Truthy(config, "apiKey") ->
            Error(Str("SerpAPI requires an API key."))
      [] name = "brave" /\ ~Truthy(config, "apiKey") ->
            Error(Str("Brave Search requires an API key."))
      [] name = "exa" /\ ~Truthy(config, "apiKey") ->
            Error(Str("Exa requires an API key"))
      [] name = "tavily" /\ ~Truthy(config, "apiKey") ->
            Error(Str("Tavily requires an API key."))
      [] name = "searxng" /\ ~Truthy(config, "baseUrl") ->
            Error(Str("SearXNG requires a base URL."))
      [] OTHER -> Null

\* What create*Provider throws before it builds the handle; Null when the
\* configuration passes.
MissingCredential(name, config) ==
    CASE name = "google" /\ ~Truthy(config, "apiKey") ->
            Error(Str("Google Custom Search requires an API key."))
      [] name = "google" /\ ~Truthy(config, "cx") ->
            Error(Str("Google Custom Search requires a Search Engine ID (cx)."))
      [] name = "serpapi" /\ ~Truthy(config, "apiKey") ->
            Error(Str("SerpAPI requires an API key."))
      [] name = "brave" /\ ~Truthy(config, "apiKey") ->
            Error(Str("Brave Search requires an API key."))
      [] name = "exa" /\ ~Truthy(config, "apiKey") ->
            Error(Str("Exa requires an API key"))
      [] name = "tavily" /\ ~Truthy(config, "apiKey") ->
            Error(Str("Tavily requires an API key."))
      [] name = "searxng" /\ ~Truthy(config, "baseUrl") ->
            Error(Str("SearXNG requires a base URL."))
      [] OTHER -> Null

\* The handle: its name and the configuration its search closes over.  arxiv
\* stores { ...config, apiKey: config.apiKey || '' }.
createProvider(name, config) ==
    IF MissingCredential(name, config) # Null
    THEN Thrown(MissingCredential(name, config))
    ELSE Returned([name |-> name,
                   config |-> IF name = "arxiv"
                              THEN config @@ [apiKey |-> ""] ELSE config])

ConfigInit ==
    /\ options = EmptyObject
    /\ pc = "none"
    /\ calls = <<>>
    /\ search = <<>>
    /\ searchPromises = <<>>
    /\ log = <<>>
    /\ outcome = NotSettled
    /\ ts = NoApplication
    /\ app \in {[phase |-> "configure", name |-> n, config |-> k @@ c @@ b,
                 fetches |-> 0] :
                  n \in AdapterNames,
                  k \in {EmptyObject, [apiKey |-> ""], [apiKey |-> "KEY"]},
                  c \in {EmptyObject, [cx |-> "CX"]},
                  b \in {EmptyObject, [baseUrl |-> "https://searx.example.org"]}}

\* configure(config): create*Provider runs to its throw or its return; it
\* calls neither get nor post.
ApplyConfigure ==
    /\ app.phase = "configure"
    /\ app' = [phase |-> "configured", name |-> app.name, config |-> app.config,
               fetches |-> app.fetches,
               result |-> createProvider(app.name, app.config)]
    /\ UNCHANGED <<options, pc, calls, search, searchPromises, log, outcome, ts>>

ConfigSpec == ConfigInit /\ [][ApplyConfigure]_vars

-----------------------------------------------------------------------------
(* The request an adapter's search builds, and what it logs of it *)

MaxPageSize == 12

MaxPage == 3

DEFAULT_MAX_RESULTS == 10

GOOGLE_MAX_NUM == 10

\* const { maxResults = 10, page = 1 } = options
MaxResultsOf(request) ==
    IF Has(request, "maxResults") THEN request.maxResults ELSE DEFAULT_MAX_RESULTS

PageOf(request) == IF Has(request, "page") THEN request.page ELSE 1

\* google: the index of the first result asked for, and how many are asked for.
GoogleStart(request) == (PageOf(request) - 1) * MaxResultsOf(request) + 1

GoogleNum(request) ==
    IF MaxResultsOf(request) > GOOGLE_MAX_NUM THEN GOOGLE_MAX_NUM
    ELSE MaxResultsOf(request)

\* The adapters that send a credential.
KeyedAdapters == {"google", "serpapi", "brave", "exa", "tavily", "searxng"}

ApiKeyOf(name) == "secret-" \o name

\* A provider created with an API key; searxng can be created without one.
KeyedProviders ==
    {[name |-> n, config |-> [apiKey |-> ApiKeyOf(n)]] : n \in KeyedAdapters}
        \cup {[name |-> "searxng", config |-> EmptyObject]}

BaseUrl ==
    [n \in KeyedAdapters |->
        CASE n = "google" -> "https://www.googleapis.com/customsearch/v1"
          [] n = "serpapi" -> "https://serpapi.com/search.json"
          [] n = "brave" -> "https://api.search.brave.com/res/v1/web/search"
          [] n = "exa" -> "https://api.exa.ai/search"
          [] n = "tavily" -> "https://api.tavily.com/search"
          [] OTHER -> "https://searx.example.org/search"]

\* The URL an adapter requests, as the sequence of its pieces: the base, then
\* the name and the value of each query parameter in the order of appending.
RequestUrl(p, request) ==
    LET m == MaxResultsOf(request)
        page == PageOf(request)
    IN  CASE p.name = "google" ->
               <<BaseUrl[p.name], "?key=", p.config.apiKey, "&cx=", "cx",
                 "&q=", request.query, "&num=", ToString(GoogleNum(request)),
                 "&start=", ToString(GoogleStart(request))>>
          [] p.name = "serpapi" ->
               <<BaseUrl[p.name], "?engine=", "google", "&api_key=",
                 p.config.apiKey, "&q=", request.query, "&num=", ToString(m),
                 "&start=",
                 ToString(IF page > 1 THEN (page - 1) * m ELSE 0)>>
          [] p.name = "brave" ->
               <<BaseUrl[p.name], "?q=", request.query, "&count=", ToString(m)>>
                 \o (IF (page - 1) * m > 0
                     THEN <<"&offset=", ToString((page - 1) * m)>> ELSE <<>>)
          [] p.name = "searxng" ->
               <<BaseUrl[p.name], "?q=", request.query, "&format=", "json",
                 "&count=", ToString(m)>>
                 \o (IF Truthy(p.config, "apiKey")
                     THEN <<"&api_key=", p.config.apiKey>> ELSE <<>>)
          [] OTHER -> <<BaseUrl[p.name]>>

\* String.prototype.replace with a string pattern: the first occurrence only.
RECURSIVE ReplaceFirst(_, _, _)
ReplaceFirst(pieces, pattern, replacement) ==
    IF pieces = <<>> THEN <<>>
    ELSE IF Head(pieces) = pattern THEN <<replacement>> \o Tail(pieces)
    ELSE <<Head(pieces)>> \o ReplaceFirst(Tail(pieces), pattern, replacement)

RequestMessage ==
    [n \in KeyedAdapters |->
        CASE n = "google" -> "Google Search request"
          [] n = "serpapi" -> "SerpAPI request"
          [] n = "brave" -> "Brave Search request"
          [] n = "exa" -> "Exa Search request"
          [] n = "tavily" -> "Tavily Search request"
          [] OTHER -> "SearxNG Search request"]

\* The data an adapter hands to debug.logRequest: each property as the
\* sequence of the pieces of its value.
RequestData(p, request) ==
    CASE p.name \in {"google", "serpapi"} ->
            [url |-> ReplaceFirst(RequestUrl(p, request), p.config.apiKey, "***")]
      [] p.name = "exa" ->
            [url |-> RequestUrl(p, request), headers |-> <<"x-api-key", "***">>,
             body |-> <<"query", request.query, "numResults",
                        ToString(MaxResultsOf(request))>>]
      [] p.name = "tavily" ->
            [url |-> RequestUrl(p, request),
             body |-> <<"api_key", "***", "query", request.query, "limit",
                        ToString(MaxResultsOf(request))>>]
      [] OTHER -> [url |-> RequestUrl(p, request)]

RequestInit ==
    /\ options = EmptyObject
    /\ pc = "none"
    /\ calls = <<>>
    /\ search = <<>>
    /\ searchPromises = <<>>
    /\ log = <<>>
    /\ outcome = NotSettled
    /\ ts = NoApplication
    /\ app \in {[phase |-> "search", provider |-> p,
                 request |-> [query |-> "q"] @@ m @@ g @@ d, url |-> <<>>] :
                  p \in KeyedProviders,
                  m \in {EmptyObject}
                        \cup {[maxResults |-> n] : n \in 1..MaxPageSize},
                  g \in {EmptyObject} \cup {[page |-> n] : n \in 1..MaxPage},
                  d \in {EmptyObject,
                         [debug |-> [enabled |-> TRUE, logRequests |-> TRUE]]}}

\* search up to its call of get/post: the request is built and logged.
BuildRequest ==
    /\ app.phase = "search"
    /\ app' = [app EXCEPT !.phase = "requested",
                          !.url = RequestUrl(app.provider, app.request)]
    /\ log' = debugLogRequest(debugOptionsOf(app.request), log,
                              RequestMessage[app.provider.name],
                              RequestData(app.provider, app.request))
    /\ UNCHANGED <<options, pc, calls, search, searchPromises, outcome, ts>>

RequestSpec == RequestInit /\ [][BuildRequest]_vars

-----------------------------------------------------------------------------
(* Vocabulary of the properties *)

Done == pc = "done"

\* The call passed both precondition checks.
PassedValidation ==
    \/ pc \in {"fanout", "await"}
    \/ pc = "done" /\ outcome \notin {Thrown(NoProviderError), Thrown(NoQueryError)}

SearchSucceeded(i) == search[i].state = "fulfilled"

SearchFailed(i) == search[i].state \in {"rejected", "threw"}

SearchSettled(i) == SearchSucceeded(i) \/ SearchFailed(i)

NamesOf(o) ==
    IF Has(o, "provider") THEN [i \in 1..Len(o.provider) |-> o.provider[i].name]
    ELSE <<>>

NamesSupplied == {NamesOf(options)[i] : i \in 1..Len(NamesOf(options))}

DebugEnabled == Has(options, "debug") /\ options.debug.enabled

\* The result lists of the providers whose search resolved, in list order.
RECURSIVE ConcatFulfilled(_)
ConcatFulfilled(promises) ==
    IF Len(promises) = 0 THEN <<>>
    ELSE (IF promises[1].state = "fulfilled" THEN promises[1].value ELSE <<>>)
         \o ConcatFulfilled(Tail(promises))

\* The text a failure carries: the message of an Error, the string otherwise.
RawMessage(e) == IF e.type = "string" THEN e.value ELSE e.message[1]

FailedLine(name, e) ==
    "Search with provider '" \o name \o "' failed: " \o RawMessage(e)

\* The paragraphs of the entry of a failed provider: the failure line, then
\* its hint.
EntryOf(name, e) ==
    LET hint == getTroubleshootingInfo(
                    name, IF e.type = "string" THEN Error(Str(e.value)) ELSE e,
                    IF e.type = "HttpError" THEN e.statusCode ELSE NoStatus)
    IN  <<FailedLine(name, e)>>
        \o (IF hint = <<"">> THEN <<>>
            ELSE <<"Troubleshooting: " \o hint[1]>> \o Tail(hint))

EntryParagraphs(i) == EntryOf(options.provider[i].name, search[i].reason)

RECURSIVE EntriesFrom(_)
EntriesFrom(i) ==
    IF i > NumProviders(options) THEN <<>>
    ELSE EntryParagraphs(i) \o EntriesFrom(i + 1)

AggregateParagraphs ==
    <<"All " \o ToString(NumProviders(options)) \o " provider(s) failed:">>
        \o EntriesFrom(1)

CallsTo(i) == Cardinality({k \in 1..Len(calls) : calls[k].index = i})

-----------------------------------------------------------------------------
(* Properties of webSearch *)

\* C1: whenever at least one provider's search resolved, even to an empty list,
\* the finished call has returned the concatenation of the resolved lists and
\* has not thrown, however many other providers failed.
C1_PartialSuccessReturns ==
    (Done /\ \E i \in Indices : SearchSucceeded(i))
        => outcome = Returned(ConcatFulfilled(search))

\* C2: when every supplied provider's search failed, the finished call has
\* thrown one error whose message is the header followed by one entry per
\* provider (failure line and hint), in provider-list order, a blank line
\* between them, whatever the order in which the providers failed.
C2_AllFailedAggregate ==
    (Done /\ Indices # {} /\ \A i \in Indices : SearchFailed(i))
        => outcome = Thrown(Error(AggregateParagraphs))

\* Both providers failed, the second of the list first.
C2_Witness ==
    /\ Done
    /\ NamesOf(options) = <<"alpha", "brave">>
    /\ \A i \in Indices : SearchFailed(i)
    /\ Len(log) = 4
    /\ log[2].message = "Search error with provider brave"
    /\ log[3].message = "Search error with provider alpha"
    /\ outcome.kind = "thrown"

\* C3: the list a call returns is the concatenation of the resolved providers'
\* lists in provider-list order: each list verbatim, nothing from a failed
\* provider, nothing re-sorted or removed as a duplicate.
C3_ReturnedIsConcatenation ==
    (Done /\ outcome.kind = "returned") => outcome.value = ConcatFulfilled(search)

\* The same handle listed twice, both invocations resolving to the same records.
C3_Witness ==
    /\ Done
    /\ NamesOf(options) = <<"alpha", "alpha">>
    /\ \A i \in Indices : SearchSucceeded(i) /\ Len(search[i].value) = MaxResults
    /\ outcome.kind = "returned"
    /\ Len(outcome.value) = 2 * MaxResults

\* C4: with a missing or empty provider list no search is invoked and nothing
\* is logged, and the call, once it has moved, has thrown 'At least one search
\* provider is required.'.
C4_NoProviderRejected ==
    NumProviders(options) = 0
        => /\ calls = <<>>
           /\ log = <<>>
           /\ pc # "start" => (Done /\ outcome = Thrown(NoProviderError))

\* An empty list, a query and diagnostics enabled.
C4_Witness ==
    /\ Done
    /\ Has(options, "provider")
    /\ Len(options.provider) = 0
    /\ Truthy(options, "query")
    /\ DebugEnabled
    /\ outcome = Thrown(NoProviderError)

\* C5: with no or an empty query, and no idList given or no supplied provider
\* named 'arxiv', no search is ever invoked and the call, once it has moved,
\* has thrown a configuration error.
C5_NoQueryRejected ==
    (~Truthy(options, "query")
     /\ (~Has(options, "idList") \/ "arxiv" \notin NamesSupplied))
        => /\ calls = <<>>
           /\ pc # "start" =>
                (Done /\ outcome \in {Thrown(NoProviderError), Thrown(NoQueryError)})

\* No query, an idList, and providers none of which is arxiv.
C5_Witness ==
    /\ Done
    /\ ~Has(options, "query")
    /\ Truthy(options, "idList")
    /\ NamesOf(options) = <<"brave", "alpha">>
    /\ calls = <<>>
    /\ outcome = Thrown(NoQueryError)

\* C6: with no query, a non-empty idList and a provider named 'arxiv', the
\* check passes and every supplied provider is invoked; a provider rejecting
\* the missing query is recorded as a failure entry of that provider, the other
\* providers are still awaited, and the call never throws that rejection.
C6_IdListRelaxesQueryCheck ==
    (~Truthy(options, "query") /\ Truthy(options, "idList")
     /\ "arxiv" \in NamesSupplied)
        => /\ pc # "start" => PassedValidation
           /\ pc \in {"await", "done"} => \A i \in Indices : CallsTo(i) = 1
           /\ \A i \in Indices :
                search[i] = Rejected(BraveQueryError) =>
                    searchPromises[i] = Fulfilled(
                        [provider |-> "brave", results |-> <<>>,
                         error |-> Error(<<FailedLine("brave", BraveQueryError),
                                           "Troubleshooting: " \o BraveHint>>)])
           /\ Done => /\ \A i \in Indices : SearchSettled(i)
                      /\ outcome # Thrown(BraveQueryError)
                      /\ (\E i \in Indices : SearchSucceeded(i)
                                             /\ search[i].value # <<>>)
                           => outcome = Returned(ConcatFulfilled(search))

\* arxiv answers the idList, brave rejects the missing query, the call returns.
C6_Witness ==
    /\ Done
    /\ ~Has(options, "query")
    /\ NamesOf(options) = <<"brave", "arxiv">>
    /\ search[1] = Rejected(BraveQueryError)
    /\ SearchSucceeded(2)
    /\ outcome.kind = "returned"
    /\ Len(outcome.value) = MaxResults

\* C7: a failure of one provider's search, rejection or synchronous throw,
\* Error or not, is held as a failure entry carrying that provider's name; a
\* finished call has the outcome of every sibling, and what it throws is the
\* aggregate error, never the provider's own failure.
C7_FailuresConverted ==
    /\ \A i \in Indices :
         SearchFailed(i) =>
            /\ searchPromises[i].state = "fulfilled"
            /\ searchPromises[i].value.provider = options.provider[i].name
            /\ searchPromises[i].value.results = <<>>
            /\ searchPromises[i].value.error.type = "Error"
            /\ searchPromises[i].value.error.message[1]
                  = FailedLine(options.provider[i].name, search[i].reason)
    /\ (Done /\ PassedValidation) =>
         /\ \A i \in Indices :
               SearchSettled(i) /\ searchPromises[i].state = "fulfilled"
         /\ outcome.kind = "thrown" =>
               outcome.error.message[1]
                  = "All " \o ToString(NumProviders(options)) \o " provider(s) failed:"

\* The first provider threw a non-Error value synchronously; the second was
\* still invoked, resolved, and the call returned its records.
C7_Witness ==
    /\ Done
    /\ NumProviders(options) = 2
    /\ search[1] = Threw([type |-> "string", value |-> "boom"])
    /\ SearchSucceeded(2)
    /\ outcome = Returned(search[2].value)
    /\ outcome.value # <<>>

\* C8: once the engine waits, every provider of the list has been invoked
\* exactly once; no provider's promise settles before all have been invoked,
\* and no provider is ever invoked twice.
C8_AllStartedBeforeWaiting ==
    /\ \A i \in Indices : CallsTo(i) <= 1
    /\ (PassedValidation /\ pc \in {"await", "done"}) =>
          \A i \in Indices : CallsTo(i) = 1
    /\ (\E i \in Indices : search[i].state \in {"fulfilled", "rejected"}) =>
          Len(calls) = NumProviders(options)

\* The engine waits and both invocations are in flight.
C8_Witness ==
    /\ pc = "await"
    /\ NumProviders(options) = 2
    /\ \A i \in Indices : search[i] = Pending /\ CallsTo(i) = 1

\* C9: while a provider's search has not settled the call has neither returned
\* nor thrown; a call that passed validation has an outcome only when every
\* invocation has settled.
C9_OutcomeAfterAllSettled ==
    /\ (\E i \in Indices : search[i] = Pending) => (outcome = NotSettled /\ ~Done)
    /\ (Done /\ PassedValidation) => \A i \in Indices : SearchSettled(i)

\* One provider has resolved with records, the other is still pending, and the
\* call is still waiting.
C9_Witness ==
    /\ pc = "await"
    /\ NumProviders(options) = 2
    /\ SearchSucceeded(1)
    /\ search[1].value # <<>>
    /\ search[2] = Pending
    /\ outcome = NotSettled

-----------------------------------------------------------------------------
(* Properties of getTroubleshootingInfo *)

DedicatedHints ==
    [google |-> GoogleHint, serpapi |-> SerpApiHint, brave |-> BraveHint,
     searxng |-> SearxNGHint, duckduckgo |-> DuckDuckGoHint]

StatusHints == {AuthHint, BadRequestHint, RateLimitHint, ServerHint}

StatusGuidance(statusCode) ==
    CASE statusCode \in {401, 403} -> AuthHint
      [] statusCode = 400 -> BadRequestHint
      [] statusCode = 429 -> RateLimitHint
      [] statusCode # NoStatus /\ statusCode >= 500 -> ServerHint
      [] OTHER -> ""

\* C11: for a provider name without a dedicated hint the status guidance is the
\* authentication hint for 401 and 403, the bad-parameter hint for 400, the
\* rate-limit hint for 429, the outage hint for every status >= 500 and nothing
\* for any other or an unknown status; when the whole hint is empty the
\* provider's failure message is the failure line alone, with no
\* 'Troubleshooting:' paragraph, and otherwise the hint follows that label.
C11_StatusGuidance ==
    (ts.phase \in {"result", "message"}
     /\ ts.providerName \notin DOMAIN DedicatedHints)
        => /\ ts.result[1] = StatusGuidance(ts.statusCode)
           /\ \A k \in 2..Len(ts.result) : ts.result[k] \notin StatusHints
           /\ ts.phase = "message" =>
                 IF ts.result = <<"">>
                 THEN ts.message =
                        <<"Search with provider '" \o ts.providerName
                            \o "' failed: " \o ts.error.message[1]>>
                 ELSE /\ Len(ts.message) >= 2
                      /\ ts.message[Len(ts.error.message) + 1]
                            = "Troubleshooting: " \o ts.result[1]

\* exa failed with status 500: the outage hint, after the label, is the second
\* paragraph of its failure message.
C11_Witness ==
    /\ ts.phase = "message"
    /\ ts.providerName = "exa"
    /\ ts.error = Error(Str("Request failed"))
    /\ ts.statusCode = 500
    /\ ts.result = <<ServerHint>>
    /\ ts.message = <<"Search with provider 'exa' failed: Request failed",
                      "Troubleshooting: " \o ServerHint>>

-----------------------------------------------------------------------------
(* Properties of the diagnostics of webSearch *)

LogResponsesOn ==
    IF DebugEnabled
    THEN IF Has(options.debug, "logResponses") THEN options.debug.logResponses
         ELSE FALSE
    ELSE FALSE

StartEvent ==
    [message |-> "Performing search with " \o ToString(NumProviders(options))
                    \o " provider(s): " \o JoinNames(NamesOf(options))]

SuccessEvent(i) ==
    [message |-> "RESPONSE: Received " \o ToString(Len(search[i].value))
                    \o " results from " \o options.provider[i].name]

FailureEvent(i) ==
    [message |-> "Search error with provider " \o options.provider[i].name,
     data |-> [error |-> ErrorMessageOf(search[i].reason),
               statusCode |-> StatusCodeOf(search[i].reason),
               troubleshooting |->
                   TroubleshootingOf(options.provider[i], search[i].reason)]]

Succeeded == {i \in Indices : SearchSucceeded(i)}

Failed == {i \in Indices : SearchFailed(i)}

FinalEvent ==
    [message |-> "Search complete: " \o ToString(Len(ConcatFulfilled(search)))
                    \o " total results from " \o ToString(Cardinality(Succeeded))
                    \o "/" \o ToString(NumProviders(options)) \o " providers."]

\* The events between the first and the last of the log of a finished call.
CompletionEvents == {log[k] : k \in 2..(Len(log) - 1)}

\* C14: with diagnostics enabled, a finished call that passed validation has
\* logged the start event, then one completion event per provider (name and
\* count on success; name, error, status code and hint on failure), then the
\* final event.
C14_EventsPerCall ==
    (DebugEnabled /\ Done /\ PassedValidation)
        => /\ Len(log) = NumProviders(options) + 2
           /\ log[1] = StartEvent
           /\ log[Len(log)] = FinalEvent
           /\ \A i \in Succeeded : SuccessEvent(i) \in CompletionEvents
           /\ \A i \in Failed : FailureEvent(i) \in CompletionEvents

\* C14 as the code has it: with 'enabled' on, the start event is the first
\* event and is logged before any provider completes; every failed provider
\* has its failure event; a provider that succeeded has its success event
\* exactly when 'logResponses' is on as well; the final event is logged last,
\* once, when the call returns or throws, and nowhere earlier.
C14_EventsPerCallAmended ==
    DebugEnabled =>
        /\ (pc # "start" /\ PassedValidation) =>
              /\ Len(log) >= 1
              /\ log[1] = StartEvent
              /\ \A k \in 2..Len(log) : log[k] # StartEvent
              /\ \A i \in Failed : \E k \in 2..Len(log) : log[k] = FailureEvent(i)
              /\ \A i \in Succeeded :
                    LogResponsesOn <=> \E k \in 2..Len(log) : log[k] = SuccessEvent(i)
        /\ ~Done => \A k \in 1..Len(log) : log[k] # FinalEvent
        /\ outcome # NotSettled => Done
        /\ (Done /\ PassedValidation) =>
              /\ log[Len(log)] = FinalEvent
              /\ Len(log) = 2 + Cardinality(Failed)
                              + (IF LogResponsesOn THEN Cardinality(Succeeded) ELSE 0)
              /\ CompletionEvents
                    = {FailureEvent(i) : i \in Failed}
                      \cup (IF LogResponsesOn
                            THEN {SuccessEvent(i) : i \in Succeeded} ELSE {})

\* 'enabled' alone: one provider succeeded with records, the other failed; the
\* log holds the start event, the failure event and the final event.
C14_Witness ==
    /\ Done
    /\ DebugEnabled
    /\ ~LogResponsesOn
    /\ NumProviders(options) = 2
    /\ SearchSucceeded(1) /\ search[1].value # <<>>
    /\ SearchFailed(2)
    /\ log = <<StartEvent, FailureEvent(2), FinalEvent>>
    /\ outcome.kind = "returned"

-----------------------------------------------------------------------------
(* Properties of the diagnostics sink *)

\* A flag of the options given to the call is on.
FlagOn(f) == IF Has(app.options, f) THEN app.options[f] ELSE FALSE

LoggerCalls == Len(app.console) + Len(app.custom)

\* C15: no logger is called when 'enabled' is off; debug.log calls the logger
\* exactly when 'enabled' is on, debug.logRequest exactly when 'enabled' and
\* 'logRequests' are on, debug.logResponse exactly when 'enabled' and
\* 'logResponses' are on; a call invokes the logger at most once; with a custom
\* logger given the default one is not called, and without one only the
\* default one is.
C15_LoggerGating ==
    app.phase = "debug done" =>
        /\ LoggerCalls <= 1
        /\ ~FlagOn("enabled") => LoggerCalls = 0
        /\ app.fn = "log" => (LoggerCalls = 1 <=> FlagOn("enabled"))
        /\ app.fn = "logRequest" =>
              (LoggerCalls = 1 <=> (FlagOn("enabled") /\ FlagOn("logRequests")))
        /\ app.fn = "logResponse" =>
              (LoggerCalls = 1 <=> (FlagOn("enabled") /\ FlagOn("logResponses")))
        /\ IF Has(app.options, "logger")
           THEN IF app.options.logger = "custom" THEN app.console = <<>>
                ELSE app.custom = <<>>
           ELSE app.custom = <<>>

\* logRequest with 'enabled', 'logRequests' and a custom logger: the custom
\* logger was called once, the default one not at all.
C15_Witness ==
    /\ app.phase = "debug done"
    /\ app.fn = "logRequest"
    /\ app.options = [enabled |-> TRUE, logRequests |-> TRUE, logger |-> "custom"]
    /\ app.data = Null
    /\ app.custom = <<[message |-> "REQUEST: Search request"]>>
    /\ app.console = <<>>

-----------------------------------------------------------------------------
(* Properties of webSearch over unconfigured singletons *)

Unconfigured(i) == Has(options.provider[i], "unconfigured")

MustBeConfigured(name) ==
    {product \o " provider must be configured before use. Call " \o name
        \o ".configure() first." :
        product \in {"Google", "SerpAPI", "Brave Search", "Exa", "Tavily",
                     "SearxNG", "Arxiv", "DuckDuckGo"}}

\* C16: the search of an unconfigured singleton, once settled, has rejected
\* with its 'must be configured before use' message and is held as a failure
\* entry of that provider; a finished call in which a configured sibling
\* succeeded has returned the concatenation of the resolved lists.
C16_UnconfiguredIsOrdinaryFailure ==
    /\ \A i \in Indices :
         (Unconfigured(i) /\ SearchSettled(i)) =>
            /\ search[i].state = "rejected"
            /\ search[i].reason.type = "Error"
            /\ search[i].reason.message[1]
                  \in MustBeConfigured(options.provider[i].name)
            /\ searchPromises[i].state = "fulfilled"
            /\ searchPromises[i].value.provider = options.provider[i].name
    /\ (Done /\ (\E i \in Indices : Unconfigured(i))
             /\ (\E j \in Indices : ~Unconfigured(j) /\ SearchSucceeded(j)))
          => outcome = Returned(ConcatFulfilled(search))

-----------------------------------------------------------------------------
(* Properties of configure / create*Provider *)

\* The credentials a provider cannot do without.
Required ==
    [google |-> {"apiKey", "cx"}, serpapi |-> {"apiKey"}, brave |-> {"apiKey"},
     exa |-> {"apiKey"}, tavily |-> {"apiKey"}, searxng |-> {"baseUrl"},
     arxiv |-> {}, duckduckgo |-> {}]

\* C17: configure has made no transport call; when a required credential is
\* missing or empty it has thrown an Error and returned no handle; otherwise
\* it has returned a handle whose name is the provider's fixed name and whose
\* configuration holds every property of the one given, the required
\* credentials among them.
C17_ConfigureValidates ==
    app.phase = "configured" =>
        /\ app.fetches = 0
        /\ IF \E f \in Required[app.name] : ~Truthy(app.config, f)
           THEN /\ app.result.kind = "thrown"
                /\ app.result.error.type = "Error"
           ELSE /\ app.result.kind = "returned"
                /\ app.result.value.name = app.name
                /\ \A f \in DOMAIN app.config :
                      /\ Has(app.result.value.config, f)
                      /\ app.result.value.config[f] = app.config[f]
                /\ \A f \in Required[app.name] :
                      Truthy(app.result.value.config, f)

\* google given an API key and no cx: the throw about the Search Engine ID.
C17_Witness ==
    /\ app.phase = "configured"
    /\ app.name = "google"
    /\ app.config = [apiKey |-> "KEY"]
    /\ app.result =
         Thrown(Error(Str("Google Custom Search requires a Search Engine ID (cx).")))

\* The paragraphs which hold both hints after the 'Troubleshooting:' label, in
\* either order, joined by nothing or by a space.
BothHints(first, second) ==
    {"Troubleshooting: " \o pair[1] \o sep \o pair[2] :
        pair \in {<<first, second>>, <<second, first>>}, sep \in {"", " "}}

\* C13: the failure message of a google provider that failed with status 400
\* holds, in its 'Troubleshooting:' paragraph, both the bad-parameter guidance
\* and the Google-specific guidance.
C13_GoogleBadRequestBothHints ==
    (ts.phase = "message" /\ ts.providerName = "google" /\ ts.statusCode = 400)
        => \E k \in 1..Len(ts.message) :
              ts.message[k] \in BothHints(BadRequestHint, GoogleHint)

-----------------------------------------------------------------------------
(* Properties of the built-in adapters and of makeRequest *)

AdapterSettled == app.phase = "settled"

\* The server answered with a non-2xx status.
HttpFailure == app.response # Null /\ ~app.response.ok

\* C12: when the transport underneath a built-in adapter failed with a non-2xx
\* status s, the failure the engine catches from the adapter's search gives it
\* s: the status code it logs is s and the hint it chooses is the hint for s.
C12_EngineKnowsStatus ==
    (AdapterSettled /\ HttpFailure)
        => /\ app.result.state = "rejected"
           /\ StatusCodeOf(app.result.reason) = app.response.status
           /\ TroubleshootingOf(app.provider, app.result.reason)
                = getTroubleshootingInfo(app.provider.name, app.result.reason,
                                         app.response.status)

\* The timer fired while fetch was pending.
TimedOut == app.timer = "fired" /\ app.response = Null

TimeoutText ==
    "Request timed out after "
        \o (IF Has(app.request, "timeout") THEN ToString(app.request.timeout)
            ELSE "15000")
        \o "ms"

TransportSettled == app.transport.state \in {"fulfilled", "rejected"}

\* C18: when the timer (the request's timeout, 15000 ms by default) fires
\* before the response arrives, makeRequest rejects with the plain Error
\* 'Request timed out after <timeout>ms'; no HTTP-status or network failure
\* rejects with that error; the adapter's failure ends with that text; and
\* whenever makeRequest has settled, however it did, the timer is cleared.
C18_TimeoutDistinct ==
    /\ TimedOut =>
          /\ app.transport = Rejected(Error(<<TimeoutText>>))
          /\ AdapterSettled =>
                /\ app.result.state = "rejected"
                /\ app.result.reason.type = "Error"
                /\ app.result.reason.message
                      = <<FailurePrefix[app.provider.name] \o ": " \o TimeoutText>>
    /\ (TransportSettled /\ ~TimedOut) =>
          app.transport # Rejected(Error(<<TimeoutText>>))
    /\ TransportSettled => app.cleared
    /\ app.phase \in {"fetching", "reading error body"} =>
          (app.timer = "armed" /\ ~app.cleared)

\* tavily, no timeout given: the timer fired during fetch and the search
\* rejected with the timeout text after tavily's prefix.
C18_Witness ==
    /\ AdapterSettled
    /\ app.provider = Handle("tavily")
    /\ ~Has(app.request, "timeout")
    /\ TimedOut
    /\ app.cleared
    /\ app.result = Rejected(Error(
            <<"Tavily search failed: Request timed out after 15000ms">>))

\* The server answered 2xx with a body that is not JSON.
TextPayload ==
    IF app.response # Null
    THEN app.response.ok /\ app.response.body.kind = "text"
    ELSE FALSE

\* C19: for a 2xx response whose payload is not JSON the transport resolves to
\* the raw text, and an adapter that asked for such a payload (arxiv,
\* duckduckgo) does not fail on it.
C19_RawTextForNonJson ==
    TextPayload =>
        /\ TransportSettled =>
              app.transport = Fulfilled(app.response.body.text)
        /\ (AdapterSettled /\ app.provider.name \in {"arxiv", "duckduckgo"}) =>
              app.result.state = "fulfilled"

\* The server answered 2xx with a JSON object that lacks the adapter's result
\* field and carries no error field.
FieldMissing ==
    IF app.response # Null
    THEN IF app.response.ok /\ app.response.body.kind = "json"
         THEN app.response.body.value = EmptyObject
         ELSE FALSE
    ELSE FALSE

\* The adapter's precondition is not met: a singleton never configured, brave
\* or duckduckgo without a query, arxiv with neither a query nor an idList.
PreconditionUnmet ==
    \/ Has(app.provider, "unconfigured")
    \/ app.provider.name \in {"brave", "duckduckgo"} /\ ~Truthy(app.request, "query")
    \/ /\ app.provider.name = "arxiv"
       /\ ~Truthy(app.request, "query")
       /\ ~Truthy(app.request, "idList")

\* The search met a failure: an unmet precondition, no response at all (a
\* timeout or a network failure), a non-2xx status, a body that is not JSON,
\* or, for serpapi, an error field in the body.
SearchFailure ==
    \/ PreconditionUnmet
    \/ app.response = Null
    \/ HttpFailure
    \/ TextPayload
    \/ IF app.provider.name = "serpapi" /\ app.response # Null
       THEN IF app.response.ok /\ app.response.body.kind = "json"
            THEN Has(app.response.body.value, "error")
            ELSE FALSE
       ELSE FALSE

JsonAdapters == {"google", "serpapi", "brave", "exa", "tavily", "searxng"}

\* C20: a settled search has rejected, and returned no list, on every failure:
\* an unmet precondition, a transport failure, a non-2xx status, a body that
\* is not JSON, and a 2xx JSON body that lacks the expected result field.
C20_RaisesOnEveryFailure ==
    (AdapterSettled /\ (SearchFailure \/ FieldMissing))
        => app.result.state = "rejected"

\* C20 as the code has it: a settled search has rejected with a plain Error on
\* an unmet precondition, a transport failure, a non-2xx status, a body that
\* is not JSON and serpapi's error field; google, serpapi, brave, exa, tavily
\* and searxng given a 2xx JSON body without their result field have returned
\* the empty list.
C20_RaisesOnEveryFailureAmended ==
    AdapterSettled =>
        /\ SearchFailure =>
              (app.result.state = "rejected" /\ app.result.reason.type = "Error")
        /\ (FieldMissing /\ app.provider.name \in JsonAdapters) =>
              app.result = Fulfilled(<<>>)
        /\ app.result.state \in {"fulfilled", "rejected"}

\* google answered 200 with a JSON object that has no items: the search
\* returned the empty list.
C20_Witness ==
    /\ AdapterSettled
    /\ app.provider = Handle("google")
    /\ Truthy(app.request, "query")
    /\ FieldMissing
    /\ app.transport = Fulfilled(EmptyObject)
    /\ app.result = Fulfilled(<<>>)

-----------------------------------------------------------------------------
(* Properties of the records webSearch returns *)

\* The number of records the resolved providers before provider i returned.
RECURSIVE Offset(_)
Offset(i) ==
    IF i <= 1 THEN 0
    ELSE Offset(i - 1)
         + (IF SearchSucceeded(i - 1) THEN Len(search[i - 1].value) ELSE 0)

\* C21: in the list a call returns, every record that the search of a built-in
\* provider produced carries that provider's name in its provider field,
\* whichever other providers succeeded or failed; and the list holds nothing
\* but the records of the providers that succeeded.
C21_ProviderStamp ==
    (Done /\ outcome.kind = "returned") =>
        /\ Len(outcome.value) = Offset(NumProviders(options) + 1)
        /\ \A i \in Indices :
              (SearchSucceeded(i) /\ options.provider[i].name \in AdapterNames) =>
                 \A k \in 1..Len(search[i].value) :
                    outcome.value[Offset(i) + k].provider
                        = options.provider[i].name

\* brave failed, arxiv resolved: the records returned are arxiv's.
C21_Witness ==
    /\ Done
    /\ NamesOf(options) = <<"brave", "arxiv">>
    /\ SearchFailed(1)
    /\ SearchSucceeded(2)
    /\ outcome.kind = "returned"
    /\ Len(outcome.value) = MaxResults
    /\ \A k \in 1..MaxResults : outcome.value[k].provider = "arxiv"

-----------------------------------------------------------------------------
(* Properties of the request webSearch forwards *)

\* C22: every invocation one call makes receives the same request: each field
\* of the caller's options other than the provider list, the debug
\* configuration included, with the caller's value, and nothing else; no step
\* of the call changes the options object or the handles in it.
C22_SameRequestForwarded ==
    /\ [](\A k \in 1..Len(calls) :
            /\ DOMAIN calls[k].request = DOMAIN options \ {"provider"}
            /\ \A f \in DOMAIN calls[k].request :
                  calls[k].request[f] = options[f]
            /\ calls[k].request = calls[1].request
            /\ calls[k].name = options.provider[k].name)
    /\ [][options' = options]_vars

\* Two providers were invoked with all the fields and the debug configuration.
C22_Witness ==
    /\ Len(calls) = 2
    /\ Has(options, "timeout")
    /\ Has(options, "debug")
    /\ calls[1].request = calls[2].request
    /\ calls[2].request.timeout = 5000
    /\ calls[2].request.sortBy = "relevance"
    /\ calls[2].request.debug
          = [enabled |-> TRUE, logRequests |-> TRUE, logger |-> "custom"]

-----------------------------------------------------------------------------
(* Properties of two calls in flight at once *)

CallDone(c) == app.call[c].pc = "done"

\* The entries of the providers of call c that failed, from provider i on.
RECURSIVE OwnEntriesFrom(_, _)
OwnEntriesFrom(c, i) ==
    IF i > Len(app.call[c].options.provider) THEN <<>>
    ELSE (IF app.call[c].search[i].state = "rejected"
          THEN EntryOf(app.call[c].options.provider[i].name,
                       app.call[c].search[i].reason)
          ELSE <<>>)
         \o OwnEntriesFrom(c, i + 1)

\* C23: of two calls in flight over the same handles, under every
\* interleaving, the list a call returns is the concatenation of the lists its
\* own invocations resolved to, the error it throws lists its own failed
\* invocations and counts its own providers, and no step changes a call's
\* options or the handles in them.
C23_CallsDoNotInterfere ==
    /\ [](\A c \in 1..2 : CallDone(c) =>
            /\ app.call[c].outcome.kind = "returned" =>
                  app.call[c].outcome.value = ConcatFulfilled(app.call[c].search)
            /\ app.call[c].outcome.kind = "thrown" =>
                  app.call[c].outcome.error.message
                      = <<"All " \o ToString(Len(app.call[c].options.provider))
                            \o " provider(s) failed:">>
                        \o OwnEntriesFrom(c, 1))
    /\ [][\A c \in 1..2 : app'.call[c].options = app.call[c].options]_vars

\* The second call returned its one provider's records while the first, over
\* both handles, was still waiting for its providers.
C23_Witness ==
    /\ CallDone(2)
    /\ app.call[1].pc = "await"
    /\ Len(app.call[1].options.provider) = 2
    /\ Len(app.call[2].options.provider) = 1
    /\ app.call[1].search[1].state = "fulfilled"
    /\ Len(app.call[1].search[1].value) = MaxResults
    /\ app.call[2].outcome.kind = "returned"
    /\ Len(app.call[2].outcome.value) = MaxResults

\* C24: two runs with the same options over providers that settle the same
\* way in both return the same list, holding each provider's sublist in the
\* same place and order, or throw the same error, in whatever order the
\* providers completed in either run.
C24_RunsAgree ==
    (/\ CallDone(1)
     /\ CallDone(2)
     /\ app.call[1].options = app.call[2].options
     /\ app.call[1].fate = app.call[2].fate)
        => /\ app.call[1].outcome = app.call[2].outcome
           /\ app.call[1].outcome.kind = "returned" =>
                 app.call[1].outcome.value = ConcatFulfilled(app.call[1].fate)

\* Both runs returned both providers' records; the providers completed in
\* opposite orders in the two runs.
C24_Witness ==
    /\ CallDone(1)
    /\ CallDone(2)
    /\ app.call[1].options = app.call[2].options
    /\ app.call[1].fate = app.call[2].fate
    /\ app.call[1].settled = <<1, 2>>
    /\ app.call[2].settled = <<2, 1>>
    /\ app.call[1].outcome.kind = "returned"
    /\ Len(app.call[1].outcome.value) = 2 * MaxResults

-----------------------------------------------------------------------------
(* Termination of webSearch *)

\* C25: when every provider promise eventually settles, a call that passed
\* validation eventually is over, having returned a list or thrown the
\* aggregate error; it does not stay pending.
C25_ValidatedCallSettles ==
    (pc = "fanout") ~>
        (/\ Done
         /\ \A i \in Indices : SearchSettled(i)
         /\ \/ outcome = Returned(ConcatFulfilled(search))
            \/ /\ outcome.kind = "thrown"
               /\ outcome.error.type = "Error"
               /\ outcome.error.message[1]
                     = "All " \o ToString(NumProviders(options))
                         \o " provider(s) failed:")

\* A call over two providers is over: one provider failed, the other resolved
\* after it.
C25_Witness ==
    /\ Done
    /\ NumProviders(options) = 2
    /\ Len(calls) = 2
    /\ SearchFailed(1)
    /\ SearchSucceeded(2)
    /\ Len(search[2].value) = MaxResults
    /\ outcome = Returned(search[2].value)

-----------------------------------------------------------------------------
(* Properties of makeRequest on a non-2xx response *)

\* The message the HttpError is constructed with.
StatusLine ==
    "Request failed with status: " \o ToString(app.response.status) \o " "
        \o app.response.statusText

\* C26: once makeRequest has settled after a non-2xx response it has rejected
\* with an HttpError carrying the status of the response, whatever the body:
\* the body was read once, what was read is only appended to the message
\* after " - ", and a body that cannot be read, or whose reading the abort
\* interrupts, leaves the HttpError with its bare message.
C26_HttpErrorWhateverTheBody ==
    (HttpFailure /\ app.phase \in {"transport settled", "settled"}) =>
        /\ app.transport.state = "rejected"
        /\ app.transport.reason.type = "HttpError"
        /\ app.transport.reason.statusCode = app.response.status
        /\ app.bodyReads = 1
        /\ \/ app.transport.reason.message = Str(StatusLine)
           \/ /\ app.response.body.kind # "unreadable"
              /\ app.timer # "fired"
              /\ app.transport.reason.message
                    \in {Str(StatusLine \o " - " \o d) :
                            d \in {"API key not valid", "Too many requests",
                                   "Forbidden by policy"}}
        /\ app.response.body.kind = "unreadable" =>
              app.transport.reason.message = Str(StatusLine)

\* A 429 whose body cannot be read: the HttpError carries 429 and the bare
\* message.
C26_Witness ==
    /\ app.phase = "transport settled"
    /\ HttpFailure
    /\ app.response.status = 429
    /\ app.response.body.kind = "unreadable"
    /\ app.timer = "armed"
    /\ app.bodyReads = 1
    /\ app.transport
         = Rejected(HttpError(Str("Request failed with status: 429 Too Many Requests"),
                              429))

-----------------------------------------------------------------------------
(* Properties of the serpapi adapter *)

\* serpapi answered 2xx with a JSON object that has an error field.
SerpApiReportedError ==
    IF app.provider.name = "serpapi" /\ app.response # Null
    THEN IF app.response.ok /\ app.response.body.kind = "json"
         THEN Has(app.response.body.value, "error")
         ELSE FALSE
    ELSE FALSE

\* C27: when serpapi answers 2xx with a body that has an error field, the
\* settled search has rejected with the Error 'SerpAPI search failed: <error>',
\* whether or not the body has organic_results beside it; it has not returned
\* them.
C27_SerpApiErrorFieldRejects ==
    (AdapterSettled /\ SerpApiReportedError) =>
        app.result
          = Rejected(Error(Str("SerpAPI search failed: "
                                 \o app.response.body.value.error)))

\* The body held both an error and organic results: the search rejected.
C27_Witness ==
    /\ AdapterSettled
    /\ app.provider = Handle("serpapi")
    /\ SerpApiReportedError
    /\ app.response.body.value.organic_results = MaxResults
    /\ app.transport.state = "fulfilled"
    /\ app.result
         = Rejected(Error(Str("SerpAPI search failed: Invalid API key.")))

-----------------------------------------------------------------------------
(* Properties of the request an adapter builds *)

Requested == app.phase = "requested"

\* What the request asks for, read from the URL that was sent.
AskedNum == app.url[9]

AskedStart == app.url[11]

\* The same request for the next page.
NextPage == [page |-> PageOf(app.request) + 1] @@ app.request

\* C28: for every maxResults >= 1 and page >= 1 the google request asks for
\* min(maxResults, 10) results from index (page-1)*maxResults + 1 on, and the
\* request for the next page starts at the index right after the last one
\* this request asks for: no overlap, no gap.
C28_GooglePagesAdjacent ==
    (Requested /\ app.provider.name = "google") =>
        LET m == MaxResultsOf(app.request)
            page == PageOf(app.request)
        IN  /\ AskedNum = ToString(IF m < 10 THEN m ELSE 10)
            /\ AskedStart = ToString((page - 1) * m + 1)
            /\ GoogleStart(NextPage) = GoogleStart(app.request) + GoogleNum(app.request)

\* C30: with diagnostics and request logging on, nothing an adapter hands to
\* the logger for its request holds the provider's API key: neither the
\* message nor any piece of any property of the data.
C30_KeyNeverLogged ==
    (Requested /\ Truthy(app.provider.config, "apiKey")) =>
        \A k \in 1..Len(log) :
            /\ log[k].message # app.provider.config.apiKey
            /\ \A f \in DOMAIN log[k].data :
                  \A j \in 1..Len(log[k].data[f]) :
                     log[k].data[f][j] # app.provider.config.apiKey

-----------------------------------------------------------------------------
(* Properties of webSearch with a logger that throws *)

\* C29: whatever the caller's logger throws, a provider whose search resolved
\* is entered as a success, a provider whose search failed is entered as a
\* failure, and the finished call has returned or thrown what it does with
\* diagnostics off: the concatenation of the resolved lists, or the aggregate
\* error when no record was returned and a provider failed.
C29_LoggerCannotChangeOutcome ==
    /\ \A i \in Indices :
          /\ SearchSucceeded(i) =>
                searchPromises[i]
                    = SettleSuccess(options.provider[i], search[i].value)
          /\ SearchFailed(i) =>
                searchPromises[i]
                    = SettleRejection(options.provider[i], search[i].reason)
    /\ (Done /\ PassedValidation) =>
          /\ \A i \in Indices : SearchSettled(i)
          /\ IF ConcatFulfilled(search) = <<>> /\ \E i \in Indices : SearchFailed(i)
             THEN /\ outcome.kind = "thrown"
                  /\ outcome.error.message[1]
                        = "All " \o ToString(NumProviders(options))
                            \o " provider(s) failed:"
             ELSE outcome = Returned(ConcatFulfilled(search))

====
